---- MODULE Spec2Model ----
(***************************************************************************)
(* A model of the prefab migration tool: the identifier codec and the      *)
(* script-map normalisation (src/parserv3.js), the tree projector          *)
(* (CocosPrefabParser), and the migration pipeline of migratePrefab        *)
(* (src/unnamed/part_000): planning, application, removal, compaction and  *)
(* the global substitution pass.                                           *)
(*                                                                         *)
(* JavaScript strings whose characters matter (type names, node names,     *)
(* paths, identifiers, graph strings) are sequences of character codes.    *)
(* Field names are TLA+ strings.  Arrays are 0-based in the source; the    *)
(* flat prefab array is a function over 0..n-1, every other list is a      *)
(* sequence.                                                               *)
(***************************************************************************)
EXTENDS Integers, Sequences, FiniteSets, TLC

VARIABLES
    cpc, uuid, min, encoded, decoded,           \* codec run
    kpc, prefabData, before,                    \* compaction run
    pc, v3PrefabData, v2PrefabData, v2Input, scriptMap,
    v3PathMap, v2PathMap, instructions, scriptInstructions,
    removalInstructions, atRemoval, finalOutput,  \* migrateFile run
    rpc, mapping, stringInstructions, strData, strInput,  \* substitution run
    dpc, v3Files, fileIndex, successCount, failCount, processed, written,  \* migrateDirectory run
    tpc, document, rootNode, firstTree, secondTree, treePaths,  \* parsePrefab run
    apc, applyInput, applyList, applyData, appliedCount,  \* applyMigrationInstructions run
    rmpc, rmInput, rmPathMap, rmInstructions, rmData  \* applyRemovalInstructions run

codecVars == <<cpc, uuid, min, encoded, decoded>>
compactVars == <<kpc, prefabData, before>>
migrateVars == <<pc, v3PrefabData, v2PrefabData, v2Input, scriptMap, v3PathMap, v2PathMap,
                 instructions, scriptInstructions, removalInstructions, atRemoval, finalOutput>>
replaceVars == <<rpc, mapping, stringInstructions, strData, strInput>>
directoryVars == <<dpc, v3Files, fileIndex, successCount, failCount, processed, written>>
projectVars == <<tpc, document, rootNode, firstTree, secondTree, treePaths>>
applyVars == <<apc, applyInput, applyList, applyData, appliedCount>>
removeVars == <<rmpc, rmInput, rmPathMap, rmInstructions, rmData>>
vars == <<codecVars, compactVars, migrateVars, replaceVars, directoryVars, projectVars, applyVars,
         removeVars>>

\* The eight runs are checked apart: each specification starts one of them and
\* leaves the variables of the others idle.
IdleCompact == kpc = "idle" /\ prefabData = <<>> /\ before = <<>>

IdleMigrate ==
    /\ pc = 0 /\ v3PrefabData = <<>> /\ v2PrefabData = <<>> /\ v2Input = <<>>
    /\ scriptMap = <<>> /\ v3PathMap = <<>> /\ v2PathMap = <<>> /\ instructions = <<>>
    /\ scriptInstructions = <<>> /\ removalInstructions = <<>> /\ atRemoval = <<>>
    /\ finalOutput = <<>>

IdleReplace ==
    /\ rpc = "idle" /\ mapping = <<>> /\ stringInstructions = <<>>
    /\ strData = <<>> /\ strInput = <<>>

IdleCodec ==
    /\ cpc = "idle" /\ uuid = <<>> /\ min = FALSE /\ encoded = <<>> /\ decoded = <<>>

IdleDirectory ==
    /\ dpc = "idle" /\ v3Files = <<>> /\ fileIndex = 0 /\ successCount = 0 /\ failCount = 0
    /\ processed = {} /\ written = {}

IdleProject ==
    /\ tpc = "idle" /\ document = <<>> /\ rootNode = -1 /\ firstTree = <<>>
    /\ secondTree = <<>> /\ treePaths = <<>>

IdleApply ==
    /\ apc = "idle" /\ applyInput = <<>> /\ applyList = <<>> /\ applyData = <<>>
    /\ appliedCount = 0

IdleRemove ==
    /\ rmpc = "idle" /\ rmInput = <<>> /\ rmPathMap = <<>> /\ rmInstructions = <<>>
    /\ rmData = <<>>

(***************************************************************************)
(* Characters and strings                                                  *)
(***************************************************************************)
Digits == <<"0", "1", "2", "3", "4", "5", "6", "7", "8", "9">>
UpperCase == <<"A", "B", "C", "D", "E", "F", "G", "H", "I", "J", "K", "L", "M",
               "N", "O", "P", "Q", "R", "S", "T", "U", "V", "W", "X", "Y", "Z">>
LowerCase == <<"a", "b", "c", "d", "e", "f", "g", "h", "i", "j", "k", "l", "m",
               "n", "o", "p", "q", "r", "s", "t", "u", "v", "w", "x", "y", "z">>

\* The character code of a one-character string (String.prototype.charCodeAt).
Ord(c) ==
    CASE \E i \in 1..10 : Digits[i] = c -> 47 + (CHOOSE i \in 1..10 : Digits[i] = c)
      [] \E i \in 1..26 : UpperCase[i] = c -> 64 + (CHOOSE i \in 1..26 : UpperCase[i] = c)
      [] \E i \in 1..26 : LowerCase[i] = c -> 96 + (CHOOSE i \in 1..26 : LowerCase[i] = c)
      [] c = "-" -> 45
      [] c = "." -> 46
      [] c = "/" -> 47
      [] c = "+" -> 43
      [] c = "=" -> 61
      [] c = "@" -> 64
      [] c = "$" -> 36
      [] c = "_" -> 95

\* A string literal, written as a tuple of one-character strings.
Str(t) == [i \in 1..Len(t) |-> Ord(t[i])]

Hyphen == Ord("-")

\* String.prototype.toLowerCase on one character code.
LowerChar(c) == IF c >= 65 /\ c <= 90 THEN c + 32 ELSE c

toLowerCase(s) == [i \in 1..Len(s) |-> LowerChar(s[i])]

\* s.slice(from, to) with 0-based bounds, to exclusive.
Slice(s, from, to) ==
    LET hi == IF to > Len(s) THEN Len(s) ELSE to
    IN  IF from >= hi THEN <<>> ELSE SubSeq(s, from + 1, hi)

RECURSIVE Join(_)
\* Array.prototype.join("") of a sequence of strings.
Join(parts) == IF parts = <<>> THEN <<>> ELSE Head(parts) \o Join(Tail(parts))

\* s.includes(c) for a single character c.
IncludesChar(s, c) == \E i \in 1..Len(s) : s[i] = c

\* s.startsWith(p)
StartsWith(s, p) == Len(s) >= Len(p) /\ SubSeq(s, 1, Len(p)) = p

RECURSIVE IndexOfFrom(_, _, _)
\* The first 1-based position >= i at which p occurs in s, or 0.
IndexOfFrom(s, p, i) ==
    IF i + Len(p) - 1 > Len(s) THEN 0
    ELSE IF SubSeq(s, i, i + Len(p) - 1) = p THEN i
    ELSE IndexOfFrom(s, p, i + 1)

\* s.includes(p)
Includes(s, p) == IndexOfFrom(s, p, 1) # 0

\* s.replace(p, r) with a string pattern: the first occurrence only.
ReplaceFirst(s, p, r) ==
    LET i == IndexOfFrom(s, p, 1)
    IN  IF i = 0 THEN s
        ELSE SubSeq(s, 1, i - 1) \o r \o SubSeq(s, i + Len(p), Len(s))

(***************************************************************************)
(* Reference codec (src/parserv3.js, 227-369)                              *)
(***************************************************************************)
BASE64_KEYS == Str(UpperCase \o LowerCase \o Digits \o <<"+", "/", "=">>)

\* BASE64_VALUES[code]: the index of the character in BASE64_KEYS, 64 for any
\* other code below 123; the array has no entry from 123 on (undefined, -1 here).
BASE64_VALUES(code) ==
    IF code >= 123 THEN -1
    ELSE IF \E i \in 1..64 : BASE64_KEYS[i] = code
         THEN (CHOOSE i \in 1..64 : BASE64_KEYS[i] = code) - 1
         ELSE 64

HexChars == Str(<<"0", "1", "2", "3", "4", "5", "6", "7", "8", "9",
                  "a", "b", "c", "d", "e", "f">>)

\* ToInt32 of a value used in a bit operation: undefined and NaN (-1 here) are 0.
ToInt(n) == IF n < 0 THEN 0 ELSE n

RECURSIVE BitOr(_, _)
BitOr(a, b) ==
    IF a = 0 THEN b
    ELSE IF b = 0 THEN a
    ELSE (IF a % 2 = 1 \/ b % 2 = 1 THEN 1 ELSE 0) + 2 * BitOr(a \div 2, b \div 2)

RECURSIVE toString16(_)
\* Number.prototype.toString(16) of a non-negative integer.
toString16(n) ==
    IF n < 16 THEN <<HexChars[n + 1]>> ELSE toString16(n \div 16) \o <<HexChars[(n % 16) + 1]>>

\* parseInt(c, 16) of one character; NaN (-1 here) when c is no hex digit or
\* is undefined (code -1, read past the end of the string).
parseInt16(c) ==
    IF c >= 48 /\ c <= 57 THEN c - 48
    ELSE IF c >= 97 /\ c <= 102 THEN c - 87
    ELSE IF c >= 65 /\ c <= 70 THEN c - 55
    ELSE -1

\* The three hexadecimal digits coded by the symbol pair at 0-based offset i.
DecodePair(e, i) ==
    LET n == ToInt(BASE64_VALUES(e[i + 1]))
        s == ToInt(BASE64_VALUES(e[i + 2]))
    IN  toString16(n \div 4)
        \o toString16(BitOr((n % 4) * 4, s \div 16))
        \o toString16(s % 16)

\* The loop "for (i = from; i < to; i += 2) t.push(...)" of decodeUuid, joined.
DecodeTail(e, from, to) ==
    Join([k \in 1..((to - from) \div 2) |-> DecodePair(e, from + 2 * (k - 1))])

\* The final assembly of decodeUuid: five slices joined by "-".
Hyphenate(e) ==
    Slice(e, 0, 8) \o <<Hyphen>> \o Slice(e, 8, 12) \o <<Hyphen>> \o Slice(e, 12, 16)
    \o <<Hyphen>> \o Slice(e, 16, 20) \o <<Hyphen>> \o Slice(e, 20, Len(e))

decodeUuid(e) ==
    IF Len(e) = 23 THEN Hyphenate(Slice(e, 0, 5) \o DecodeTail(e, 5, 23))
    ELSE IF Len(e) # 22 THEN e
    ELSE Hyphenate(Slice(e, 0, 2) \o DecodeTail(e, 2, 22))

\* uuid.replace(/-/g, "")
StripHyphens(s) == SelectSeq(s, LAMBDA c : c # Hyphen)

\* hex[i] for a 0-based i: undefined (-1 here) past the end.
CharAt(hex, i) == IF i < Len(hex) THEN hex[i + 1] ELSE -1

\* The two symbols that code the hexadecimal digits at 0-based offsets i, i+1, i+2.
EncodeTriple(hex, i) ==
    LET hexVal1 == ToInt(parseInt16(CharAt(hex, i)))
        hexVal2 == ToInt(parseInt16(CharAt(hex, i + 1)))
        hexVal3 == ToInt(parseInt16(CharAt(hex, i + 2)))
    IN  << BASE64_KEYS[BitOr(hexVal1 * 4, hexVal2 \div 4) + 1],
           BASE64_KEYS[BitOr((hexVal2 % 4) * 16, hexVal3) + 1] >>

\* A variant of encodeUuid that leaves out the conversion to lower case.
encodeUuidKeepCase(u, m) ==
    IF Len(u) # 36 THEN u
    ELSE LET hex == StripHyphens(u)
             reserved == IF m THEN 2 ELSE 5
             count == (32 - reserved + 2) \div 3
         IN  [i \in 1..reserved |-> hex[i]]
             \o Join([k \in 1..count |-> EncodeTriple(hex, reserved + 3 * (k - 1))])

\* encodeUuid(uuid, min): anything that is not a 36-character string is
\* returned as it is.  The reserved digits of a string whose hyphens leave
\* fewer than `reserved` characters are not modelled (no input here is one).
encodeUuid(u, m) ==
    IF Len(u) # 36 THEN u
    ELSE LET hex == toLowerCase(StripHyphens(u))
             reserved == IF m THEN 2 ELSE 5
             count == (32 - reserved + 2) \div 3
         IN  [i \in 1..reserved |-> hex[i]]
             \o Join([k \in 1..count |-> EncodeTriple(hex, reserved + 3 * (k - 1))])

isShortUUID(u) == Len(u) = 22

isLongUUID(u) == Len(u) = 36 /\ IncludesChar(u, Hyphen)

normalizeToShort(u) ==
    IF isShortUUID(u) THEN u
    ELSE IF isLongUUID(u) THEN encodeUuid(u, FALSE)
    ELSE u

normalizeToLong(u) ==
    IF isLongUUID(u) THEN u
    ELSE IF isShortUUID(u) THEN decodeUuid(u)
    ELSE u

\* The identifier of the test code at src/parserv3.js:372.
ExampleId ==
    Str(<<"e", "9", "e", "c", "6", "5", "4", "c", "-", "9", "7", "a", "2", "-",
          "4", "7", "8", "7", "-", "9", "3", "2", "5", "-",
          "e", "6", "a", "1", "0", "3", "7", "5", "2", "1", "9", "a">>)

\* The long key of SCRIPT_UUID_MAP (CountDownButton).
CountDownId ==
    Str(<<"7", "d", "7", "2", "9", "a", "5", "0", "-", "d", "e", "e", "a", "-",
          "4", "c", "4", "b", "-", "8", "e", "3", "a", "-",
          "d", "1", "1", "5", "9", "e", "b", "9", "a", "3", "3", "a">>)

(***************************************************************************)
(* Graph model: values, records and the flat array                         *)
(*                                                                         *)
(* A value is [tag, n, s, list, obj]:                                      *)
(*   "null"  null                                                          *)
(*   "num"   a scalar (number, boolean, vector) n                          *)
(*   "str"   the string s                                                  *)
(*   "ref"   the reference object {__id__: n}                              *)
(*   "refs"  an array of reference objects, their slots in list            *)
(*   "tref"  the tree form {__type__: s, __ref__: n} of a reference        *)
(*   "uref"  the tree form {__ref__: n} of a reference to an empty slot    *)
(*   "rec"   the record at slot n of the array it was read from itself     *)
(* obj is the identity of a JavaScript object: <<>> for an object held at  *)
(* one place only, otherwise a tuple shared by every place that holds the  *)
(* same object.  A record is a function from its field names to values; a  *)
(* slot of the array holds a record or is a tombstone (null or a hole).    *)
(***************************************************************************)
Val(tag, n, s, list, obj) == [tag |-> tag, n |-> n, s |-> s, list |-> list, obj |-> obj]

Null == Val("null", 0, <<>>, <<>>, <<>>)
Num(n) == Val("num", n, <<>>, <<>>, <<>>)
StrV(s) == Val("str", 0, s, <<>>, <<>>)
Ref(n) == Val("ref", n, <<>>, <<>>, <<>>)
Refs(list) == Val("refs", 0, <<>>, list, <<>>)
TRef(type, n) == Val("tref", n, type, <<>>, <<>>)
URef(n) == Val("uref", n, <<>>, <<>>, <<>>)
RecV(n) == Val("rec", n, <<>>, <<>>, <<>>)

Tomb == [f \in {"__tomb__"} |-> Null]

\* A parsed document that is no array (an object, a number, a string): it is
\* written as the one-slot array of this mark.
NotArrayMark == [f \in {"__notarray__"} |-> Null]

\* The order in which the fields of a record are enumerated (for ... in,
\* Object.keys): the records here are written with their keys in this order.
FieldOrder ==
    <<"__type__", "_name", "_id", "_parent", "_children", "_components", "node",
      "_opacity", "_contentSize", "_anchorPoint", "_color", "_string", "_N$string",
      "_target", "_N$target", "_transition", "_N$transition", "transition",
      "_verticalAlign", "_N$verticalAlign", "_horizontalAlign", "_N$horizontalAlign",
      "_fontFamily", "_N$fontFamily", "_overflow", "_N$overflow", "_cacheMode",
      "_N$cacheMode", "_font", "_N$file", "_interactable", "_N$interactable",
      "_normalColor", "_N$normalColor", "_duration", "duration", "_zoomScale", "zoomScale",
      "_hoverColor", "_N$hoverColor", "hoverColor", "_pressedColor", "_N$pressedColor",
      "pressedColor", "_disabledColor", "_N$disabledColor", "disabledColor",
      "_normalSprite", "_N$normalSprite", "normalSprite", "_hoverSprite", "_N$hoverSprite",
      "hoverSprite", "_pressedSprite", "_N$pressedSprite", "pressedSprite",
      "_disabledSprite", "_N$disabledSprite", "disabledSprite",
      "clickEvents", "foo", "bar", "ref", "ref2", "__compId__", "__ref__", "url">>

Keys(rec) == SelectSeq(FieldOrder, LAMBDA f : f \in DOMAIN rec)

Has(rec, f) == f \in DOMAIN rec

\* rec[f] = value
Put(rec, f, value) == [g \in DOMAIN rec \cup {f} |-> IF g = f THEN value ELSE rec[g]]

\* The JavaScript array with the elements of the sequence q.
Arr(q) == [i \in 0..(Len(q) - 1) |-> q[i + 1]]

ArrLen(a) == Cardinality(DOMAIN a)

\* a[i] is a record (neither out of range, nor null, nor a hole)
Live(a, i) == i \in DOMAIN a /\ a[i] # Tomb

LiveSlots(a) == {i \in DOMAIN a : a[i] # Tomb}

\* The elements of a set of integers in increasing order.
RECURSIVE Sorted(_)
Sorted(S) ==
    IF S = {} THEN <<>>
    ELSE LET m == CHOOSE x \in S : \A y \in S : x <= y
         IN  <<m>> \o Sorted(S \ {m})

\* item.__type__ as a string, <<>> when the record has none.
TypeOf(rec) == IF Has(rec, "__type__") /\ rec["__type__"].tag = "str" THEN rec["__type__"].s ELSE <<>>

\* Every slot a reference object of the record holds.
RefsOfValue(v) ==
    IF v.tag = "ref" THEN {v.n}
    ELSE IF v.tag = "refs" THEN {v.list[i] : i \in 1..Len(v.list)}
    ELSE {}

RefsOfRecord(rec) == UNION {RefsOfValue(rec[f]) : f \in DOMAIN rec}

RefsOf(a) == UNION {RefsOfRecord(a[i]) : i \in LiveSlots(a)}

(***************************************************************************)
(* Compactor (src/unnamed/part_000, 875-940)                               *)
(***************************************************************************)
\* oldToNewIdMap.get(old): the number of records before slot old, undefined
\* (-1 here) when the slot holds no record.
oldToNewIdMap(data, old) ==
    IF Live(data, old) THEN Cardinality({j \in LiveSlots(data) : j < old}) ELSE -1

\* One visit of updateReferences to a reference object holding oldId.
UpdateId(data, oldId) ==
    LET newId == oldToNewIdMap(data, oldId)
    IN  IF newId # -1 THEN newId ELSE oldId

\* The number of places in the records of the array that hold the object obj:
\* updateReferences visits the object once for each of them.
Visits(data, obj) ==
    IF obj = <<>> THEN 1
    ELSE Cardinality(UNION {{<<i, f>> : f \in {g \in DOMAIN data[i] : data[i][g].obj = obj}} :
                            i \in LiveSlots(data)})

RECURSIVE UpdateIdTimes(_, _, _)
UpdateIdTimes(data, id, times) ==
    IF times = 0 THEN id ELSE UpdateIdTimes(data, UpdateId(data, id), times - 1)

\* updateReferences on one field value, the walk over the whole array done.
updateReferences(data, v) ==
    IF v.tag = "ref" THEN [v EXCEPT !.n = UpdateIdTimes(data, v.n, Visits(data, v.obj))]
    ELSE IF v.tag = "refs"
    THEN [v EXCEPT !.list = [k \in 1..Len(v.list) |->
                                UpdateIdTimes(data, v.list[k], Visits(data, v.obj))]]
    ELSE v

\* A variant of the compactor that removes the empty slots and leaves every
\* reference as it was.
compactWithoutReindex(data) ==
    LET live == Sorted(LiveSlots(data))
    IN  [i \in 0..(Len(live) - 1) |-> data[live[i + 1]]]

compactAndReindexPrefab(data) ==
    LET live == Sorted(LiveSlots(data))
    IN  [i \in 0..(Len(live) - 1) |->
            [f \in DOMAIN data[live[i + 1]] |-> updateReferences(data, data[live[i + 1]][f])]]

(***************************************************************************)
(* Tree projector (src/parserv3.js, 8-213)                                 *)
(*                                                                         *)
(* An object used as a map of names (components, children, the tree, the   *)
(* path map) is a sequence of [key, val] in the order of Object.entries:   *)
(* the order in which the keys were first set.                             *)
(***************************************************************************)
HasKey(m, key) == \E i \in 1..Len(m) : m[i].key = key

\* m[key], for a key the map has
Get(m, key) == m[CHOOSE i \in 1..Len(m) : m[i].key = key].val

\* A map that keeps the value a key was first set to.
SetOnce(m, key, val) ==
    IF HasKey(m, key) THEN m ELSE Append(m, [key |-> key, val |-> val])

\* m[key] = val
Set(m, key, val) ==
    IF HasKey(m, key)
    THEN [i \in 1..Len(m) |-> IF m[i].key = key THEN [key |-> key, val |-> val] ELSE m[i]]
    ELSE Append(m, [key |-> key, val |-> val])

cc == Str(<<"c", "c", ".">>)
ccNode == Str(<<"c", "c", ".", "N", "o", "d", "e">>)
RootName == Str(<<"R", "o", "o", "t">>)
NodePrefix == Str(<<"N", "o", "d", "e", "_">>)
Slash == Str(<<"/">>)

RECURSIVE Decimal(_)
\* The decimal digits of a non-negative integer (template literal `${n}`).
Decimal(n) ==
    IF n < 10 THEN <<48 + n>> ELSE Decimal(n \div 10) \o <<48 + (n % 10)>>

\* nodeData._name || fallback
NameOr(rec, fallback) ==
    IF Has(rec, "_name") /\ rec["_name"].tag = "str" /\ rec["_name"].s # <<>>
    THEN rec["_name"].s
    ELSE fallback

\* resolveReference(refId)
resolveReference(data, refId) ==
    IF ~Live(data, refId) THEN URef(refId)
    ELSE IF TypeOf(data[refId]) # <<>> THEN TRef(TypeOf(data[refId]), refId)
    ELSE RecV(refId)

\* parseComponent(component): every field but __type__, a reference resolved.
parseComponent(data, component) ==
    [key \in DOMAIN component \ {"__type__"} |->
        IF component[key].tag = "ref"
        THEN resolveReference(data, component[key].n)
        ELSE component[key]]

\* The slots listed by a field that holds an array of references, <<>> when
\* the field is absent or no array.
RefList(rec, f) == IF Has(rec, f) /\ rec[f].tag = "refs" THEN rec[f].list ELSE <<>>

RECURSIVE ParseComponentsByPosition(_, _, _)
\* A component table that records the position of a component in the list
\* of its node instead of its slot.
ParseComponentsByPosition(data, list, k) ==
    IF k = 0 THEN <<>>
    ELSE LET done == ParseComponentsByPosition(data, list, k - 1)
             compId == list[k]
         IN  IF Live(data, compId) /\ TypeOf(data[compId]) # <<>>
             THEN Set(done, ReplaceFirst(TypeOf(data[compId]), cc, <<>>),
                      Put(parseComponent(data, data[compId]), "__compId__", Num(k - 1)))
             ELSE done

RECURSIVE ParseComponents(_, _, _)
\* nodeInfo.components after the first k references of nodeData._components.
ParseComponents(data, list, k) ==
    IF k = 0 THEN <<>>
    ELSE LET done == ParseComponents(data, list, k - 1)
             compId == list[k]
         IN  IF Live(data, compId) /\ TypeOf(data[compId]) # <<>>
             THEN Set(done, ReplaceFirst(TypeOf(data[compId]), cc, <<>>),
                      Put(parseComponent(data, data[compId]), "__compId__", Num(compId)))
             ELSE done

RECURSIVE parseNode(_, _, _)
RECURSIVE ParseChildren(_, _, _, _)
\* nodeInfo.children after the first k references of nodeData._children.
ParseChildren(data, list, k, depth) ==
    IF k = 0 THEN <<>>
    ELSE LET done == ParseChildren(data, list, k - 1, depth)
             childId == list[k]
         IN  IF Live(data, childId) /\ TypeOf(data[childId]) = ccNode
             THEN Set(done, NameOr(data[childId], NodePrefix \o Decimal(childId)),
                      parseNode(data, childId, depth + 1))
             ELSE done

\* parseNode(nodeIndex, nodeData).  A chain of child references longer than
\* the array runs through a cycle: the recursion of the source never returns
\* (it ends in a stack overflow), marked here by overflow.  The transform
\* properties of the node info (active, position, ...) are read by no later
\* step and are left out.
parseNode(data, nodeIndex, depth) ==
    IF depth > ArrLen(data)
    THEN [__nodeId__ |-> nodeIndex, components |-> <<>>, children |-> <<>>, overflow |-> TRUE]
    ELSE LET nodeData == data[nodeIndex]
             comps == RefList(nodeData, "_components")
             kids == RefList(nodeData, "_children")
             children == ParseChildren(data, kids, Len(kids), depth)
         IN  [__nodeId__ |-> nodeIndex,
              components |-> ParseComponents(data, comps, Len(comps)),
              children |-> children,
              overflow |-> \E i \in 1..Len(children) : children[i].val.overflow]

\* buildMaps: the slots of the node records (nodeMap), in array order.
nodeMap(data) == Sorted({i \in LiveSlots(data) : TypeOf(data[i]) = ccNode})

\* !node._parent || node._parent.__id__ === undefined
HasNoParent(node) == ~(Has(node, "_parent") /\ node["_parent"].tag = "ref")

\* Array.isArray(this.prefabData) of parse() (line 19)
IsArray(data) == ~(0 \in DOMAIN data /\ data[0] = NotArrayMark)

\* A root search that settles for the first node of the node table.
findFirstNode(data) ==
    LET nodes == nodeMap(data)
    IN  IF nodes # <<>> THEN nodes[1] ELSE -1

\* findRootNode: the slot of the first node without a parent, -1 for null.
findRootNode(data) ==
    LET nodes == nodeMap(data)
    IN  IF \E i \in 1..Len(nodes) : HasNoParent(data[nodes[i]])
        THEN nodes[CHOOSE i \in 1..Len(nodes) :
                      /\ HasNoParent(data[nodes[i]])
                      /\ \A j \in 1..(i - 1) : ~HasNoParent(data[nodes[j]])]
        ELSE -1

NoTree == <<>>

\* parsePrefab(prefabContent): the tree {rootName: nodeInfo} of parse(), or
\* null (NoTree) when parse() throws: no array, no root node, or the recursion
\* overflowed.
parsePrefab(data) ==
    LET root == IF IsArray(data) THEN findRootNode(data) ELSE -1
    IN  IF root = -1 THEN NoTree
        ELSE LET info == parseNode(data, root, 1)
             IN  IF info.overflow THEN NoTree
                 ELSE <<[key |-> NameOr(data[root], RootName), val |-> info]>>

(***************************************************************************)
(* Path matcher (src/unnamed/part_000, 379-397)                            *)
(***************************************************************************)
RECURSIVE traverse(_, _, _)
RECURSIVE TraverseChildren(_, _, _, _)
\* The loop of traverse over the first k entries of node.children.
TraverseChildren(pathMap, children, k, path) ==
    IF k = 0 THEN pathMap
    ELSE LET childPath == IF path # <<>> THEN path \o Slash \o children[k].key
                          ELSE children[k].key
         IN  traverse(TraverseChildren(pathMap, children, k - 1, path),
                      children[k].val, childPath)

traverse(pathMap, node, path) ==
    TraverseChildren(Set(pathMap, path, node), node.children, Len(node.children), path)

\* buildPathMap(tree) for the tree of parsePrefab (one root entry).
buildPathMap(tree) == traverse(<<>>, tree[1].val, tree[1].key)

(***************************************************************************)
(* Configuration (src/unnamed/part_000, 176-269)                           *)
(***************************************************************************)
Node == Str(<<"N", "o", "d", "e">>)
UIOpacity == Str(<<"U", "I", "O", "p", "a", "c", "i", "t", "y">>)
UITransform == Str(<<"U", "I", "T", "r", "a", "n", "s", "f", "o", "r", "m">>)
Label == Str(<<"L", "a", "b", "e", "l">>)
Sprite == Str(<<"S", "p", "r", "i", "t", "e">>)
Button == Str(<<"B", "u", "t", "t", "o", "n">>)

\* One entry of a fieldMap: the source field and its destination field or
\* fields (a single destination is a list of one, as at lines 454 and 480).
To(from, to) == [from |-> from, to |-> to]

COMPONENT_TRANSFORM_RULES ==
    << [key |-> UIOpacity, val |->
          << [target |-> Node, fieldMap |-> << To("_opacity", <<"_opacity">>) >>] >>],
       [key |-> UITransform, val |->
          << [target |-> Node, fieldMap |->
                << To("_anchorPoint", <<"_anchorPoint">>),
                   To("_contentSize", <<"_contentSize">>) >>] >>],
       [key |-> Label, val |->
          << [target |-> Node, fieldMap |-> << To("_color", <<"_color">>) >>],
             [target |-> Label, fieldMap |->
                << To("_verticalAlign", <<"_N$verticalAlign">>),
                   To("_horizontalAlign", <<"_N$horizontalAlign">>),
                   To("_fontFamily", <<"_N$fontFamily">>),
                   To("_overflow", <<"_N$overflow">>),
                   To("_cacheMode", <<"_N$cacheMode">>),
                   To("_string", <<"_N$string">>),
                   To("_font", <<"_N$file">>) >>] >>],
       [key |-> Sprite, val |->
          << [target |-> Node, fieldMap |-> << To("_color", <<"_color">>) >>] >>],
       [key |-> Button, val |->
          << [target |-> Button, fieldMap |->
                << To("_transition", <<"_N$transition", "transition">>),
                   To("_interactable", <<"_N$interactable">>),
                   To("_normalColor", <<"_N$normalColor">>),
                   To("_target", <<"_N$target">>),
                   To("_duration", <<"duration">>),
                   To("_zoomScale", <<"zoomScale">>),
                   To("_hoverColor", <<"_N$hoverColor", "hoverColor">>),
                   To("_pressedColor", <<"_N$pressedColor", "pressedColor">>),
                   To("_disabledColor", <<"_N$disabledColor", "disabledColor">>),
                   To("_normalSprite", <<"_N$normalSprite", "normalSprite">>),
                   To("_hoverSprite", <<"_N$hoverSprite", "hoverSprite">>),
                   To("_pressedSprite", <<"_N$pressedSprite", "pressedSprite">>),
                   To("_disabledSprite", <<"_N$disabledSprite", "disabledSprite">>) >>] >>] >>

COMPONENTS_TO_REMOVE == <<UIOpacity, UITransform>>

\* COMPONENTS_TO_REMOVE.includes(compType)
ToRemove(compType) == \E i \in 1..Len(COMPONENTS_TO_REMOVE) : COMPONENTS_TO_REMOVE[i] = compType

\* The whitelist is empty in the source: a map from component kind to the
\* list of the field names that may be migrated.
FIELD_WHITELIST == <<>>

(***************************************************************************)
(* Migration compiler (src/unnamed/part_000, 403-549)                      *)
(***************************************************************************)
shouldMigrateField(compType, fieldName) ==
    IF fieldName = "node" \/ fieldName = "__compId__" \/ fieldName = "__ref__" THEN FALSE
    ELSE IF HasKey(FIELD_WHITELIST, compType)
    THEN \E i \in 1..Len(Get(FIELD_WHITELIST, compType)) :
            Get(FIELD_WHITELIST, compType)[i] = fieldName
    ELSE TRUE

\* value !== undefined && value !== null, for the field f of a parsed component
Present(comp, f) == Has(comp, f) /\ comp[f].tag # "null"

\* value.__type__ && value.__ref__: a tree-form reference with a non-empty
\* kind and a slot other than 0.
IsTypedRef(value) == value.tag = "tref" /\ value.s # <<>> /\ value.n # 0

\* The value of field f of the parsed source component, as the object it is:
\* every instruction that carries it carries the same object.
Carried(v3Comp, f) ==
    IF v3Comp[f].tag \in {"refs", "tref", "uref", "rec"}
    THEN [v3Comp[f] EXCEPT !.obj = <<"v3", v3Comp["__compId__"].n, f>>]
    ELSE v3Comp[f]

\* v = { __id__: value.__ref__ }: one new reference object for one source field.
Rewritten(v3Comp, f) ==
    IF IsTypedRef(v3Comp[f])
    THEN Val("ref", v3Comp[f].n, <<>>, <<>>, <<"new", v3Comp["__compId__"].n, f>>)
    ELSE Carried(v3Comp, f)

NoIns ==
    [type |-> "", targetNodeId |-> -1, targetCompId |-> -1, field |-> "", value |-> Null,
     source |-> <<>>, componentType |-> <<>>, fields |-> <<>>]

\* A compiler that redirects to the node only when the target node has a
\* component of the source kind, and knows no other rule.
RuleInstructionsForCommonKinds(compType, v3Comp, v2Node, transformRule) ==
    IF transformRule.target = Node /\ HasKey(v2Node.components, compType)
    THEN Join([e \in 1..Len(transformRule.fieldMap) |->
            LET v3Field == transformRule.fieldMap[e].from
                targets == transformRule.fieldMap[e].to
            IN  IF Present(v3Comp, v3Field)
                THEN [t \in 1..Len(targets) |->
                        [NoIns EXCEPT !.type = "TRANSFORM_TO_NODE",
                                      !.targetNodeId = v2Node.__nodeId__,
                                      !.field = targets[t],
                                      !.value = Carried(v3Comp, v3Field),
                                      !.source = <<compType, v3Field>>]]
                ELSE <<>>])
    ELSE <<>>

\* The instructions of one transform rule for the component v3Comp of kind
\* compType on a matched node.
RuleInstructions(compType, v3Comp, v2Node, transformRule) ==
    IF transformRule.target = Node
    THEN Join([e \in 1..Len(transformRule.fieldMap) |->
            LET v3Field == transformRule.fieldMap[e].from
                targets == transformRule.fieldMap[e].to
            IN  IF Present(v3Comp, v3Field)
                THEN [t \in 1..Len(targets) |->
                        [NoIns EXCEPT !.type = "TRANSFORM_TO_NODE",
                                      !.targetNodeId = v2Node.__nodeId__,
                                      !.field = targets[t],
                                      !.value = Carried(v3Comp, v3Field),
                                      !.source = <<compType, v3Field>>]]
                ELSE <<>>])
    ELSE IF HasKey(v2Node.components, transformRule.target)
    THEN Join([e \in 1..Len(transformRule.fieldMap) |->
            LET v3Field == transformRule.fieldMap[e].from
                targets == transformRule.fieldMap[e].to
            IN  IF Present(v3Comp, v3Field)
                THEN [t \in 1..Len(targets) |->
                        [NoIns EXCEPT !.type = "TRANSFORM_TO_COMPONENT",
                                      !.targetCompId =
                                          Get(v2Node.components, transformRule.target)["__compId__"].n,
                                      !.field = targets[t],
                                      !.value = Rewritten(v3Comp, v3Field),
                                      !.source = <<compType, v3Field>>]]
                ELSE <<>>])
    ELSE <<>>

TransformInstructions(compType, v3Comp, v2Node) ==
    IF HasKey(COMPONENT_TRANSFORM_RULES, compType)
    THEN LET transformRules == Get(COMPONENT_TRANSFORM_RULES, compType)
         IN  Join([r \in 1..Len(transformRules) |->
                     RuleInstructions(compType, v3Comp, v2Node, transformRules[r])])
    ELSE <<>>

\* fieldsToMigrate of lines 514-532.
FieldsToMigrate(compType, v3Comp, v2Comp) ==
    LET names == SelectSeq(Keys(v3Comp), LAMBDA f :
                    /\ Present(v3Comp, f)
                    /\ Has(v2Comp, f)
                    /\ ~IsTypedRef(v3Comp[f])
                    /\ shouldMigrateField(compType, f))
    IN  [k \in 1..Len(names) |-> [field |-> names[k], value |-> Carried(v3Comp, names[k])]]

\* The generic migration of one component (lines 506-544).
MigrateInstruction(compType, v3Comp, v2Node) ==
    IF ~HasKey(v2Node.components, compType) THEN <<>>
    ELSE LET v2Comp == Get(v2Node.components, compType)
             fieldsToMigrate == FieldsToMigrate(compType, v3Comp, v2Comp)
         IN  IF Len(fieldsToMigrate) > 0
             THEN << [NoIns EXCEPT !.type = "MIGRATE_COMPONENT",
                                   !.targetCompId = v2Comp["__compId__"].n,
                                   !.componentType = compType,
                                   !.fields = fieldsToMigrate] >>
             ELSE <<>>

generateMigrationInstructions(p3, p2) ==
    Join([i \in 1..Len(p3) |->
        IF ~HasKey(p2, p3[i].key) THEN <<>>
        ELSE LET v3Node == p3[i].val
                 v2Node == Get(p2, p3[i].key)
             IN  Join([c \in 1..Len(v3Node.components) |->
                     TransformInstructions(v3Node.components[c].key, v3Node.components[c].val, v2Node)
                     \o MigrateInstruction(v3Node.components[c].key, v3Node.components[c].val, v2Node)])])

(***************************************************************************)
(* Instruction applier (src/unnamed/part_000, 711-763)                     *)
(***************************************************************************)
\* data[slot][field] = value
SetField(data, slot, field, value) == [data EXCEPT ![slot] = Put(data[slot], field, value)]

RECURSIVE SetFields(_, _, _, _)
\* The loop of line 748 over the first k fields.
SetFields(data, slot, fields, k) ==
    IF k = 0 THEN data
    ELSE SetField(SetFields(data, slot, fields, k - 1), slot, fields[k].field, fields[k].value)

\* A variant of the applier that knows the two redirect instructions only.
ApplyTransformInstruction(data, instruction) ==
    CASE instruction.type = "TRANSFORM_TO_NODE" ->
            IF Live(data, instruction.targetNodeId)
               /\ TypeOf(data[instruction.targetNodeId]) = ccNode
            THEN SetField(data, instruction.targetNodeId, instruction.field, instruction.value)
            ELSE data
      [] instruction.type = "TRANSFORM_TO_COMPONENT" ->
            IF Live(data, instruction.targetCompId)
            THEN SetField(data, instruction.targetCompId, instruction.field, instruction.value)
            ELSE data
      [] OTHER -> data

\* One instruction of applyMigrationInstructions.
ApplyInstruction(data, instruction) ==
    CASE instruction.type = "TRANSFORM_TO_NODE" ->
            IF Live(data, instruction.targetNodeId)
               /\ TypeOf(data[instruction.targetNodeId]) = ccNode
            THEN SetField(data, instruction.targetNodeId, instruction.field, instruction.value)
            ELSE data
      [] instruction.type = "TRANSFORM_TO_COMPONENT" ->
            IF Live(data, instruction.targetCompId)
            THEN SetField(data, instruction.targetCompId, instruction.field, instruction.value)
            ELSE data
      [] instruction.type = "MIGRATE_COMPONENT" ->
            IF Live(data, instruction.targetCompId)
            THEN SetFields(data, instruction.targetCompId, instruction.fields,
                           Len(instruction.fields))
            ELSE data
      [] OTHER -> data

RECURSIVE ApplyFirst(_, _, _)
\* The array after the first k instructions.
ApplyFirst(data, ins, k) ==
    IF k = 0 THEN data ELSE ApplyInstruction(ApplyFirst(data, ins, k - 1), ins[k])

applyMigrationInstructions(data, ins) == ApplyFirst(data, ins, Len(ins))

\* A count of every instruction of the list.
CountsAlways(data, instruction) == TRUE

\* The guard under which an instruction is applied and appliedCount++ runs
\* (lines 720, 734 and 747).
Counts(data, instruction) ==
    CASE instruction.type = "TRANSFORM_TO_NODE" ->
            /\ Live(data, instruction.targetNodeId)
            /\ TypeOf(data[instruction.targetNodeId]) = ccNode
      [] instruction.type \in {"TRANSFORM_TO_COMPONENT", "MIGRATE_COMPONENT"} ->
            Live(data, instruction.targetCompId)
      [] OTHER -> FALSE

RECURSIVE AppliedCount(_, _, _)
\* appliedCount after the first k instructions.
AppliedCount(data, ins, k) ==
    IF k = 0 THEN 0
    ELSE AppliedCount(data, ins, k - 1)
         + (IF Counts(ApplyFirst(data, ins, k - 1), ins[k]) THEN 1 ELSE 0)

(***************************************************************************)
(* Script-type replacement (src/parserv3.js, 355-369; src/unnamed/part_000,*)
(* 249-257, 595-670, 945-986)                                              *)
(***************************************************************************)
BorderGraphicKey ==
    Str(<<"2", "5", "f", "8", "f", "x", "w", "t", "s", "Z", "C", "T",
          "7", "y", "F", "0", "l", "z", "y", "t", "5", "z", "U">>)

I18nTextKey ==
    Str(<<"0", "8", "e", "1", "e", "8", "n", "Y", "q", "F", "C", "d",
          "7", "d", "X", "6", "K", "i", "i", "P", "t", "2", "N">>)

BorderGraphicTarget ==
    Str(<<"8", "b", "a", "b", "7", "e", "0", "c", "-", "0", "3", "8",
          "0", "-", "4", "9", "1", "c", "-", "b", "6", "6", "f", "-",
          "b", "2", "b", "e", "f", "7", "5", "6", "5", "7", "c", "2">>)

I18nTextTarget ==
    Str(<<"0", "6", "5", "7", "7", "5", "0", "f", "-", "9", "1", "c",
          "5", "-", "4", "c", "1", "9", "-", "9", "b", "f", "b", "-",
          "6", "c", "1", "0", "d", "2", "1", "f", "4", "6", "8", "7">>)

CountDownTarget ==
    Str(<<"a", "4", "2", "b", "0", "a", "2", "1", "-", "b", "2", "3",
          "f", "-", "4", "5", "b", "f", "-", "8", "7", "b", "2", "-",
          "9", "2", "1", "4", "3", "c", "8", "7", "8", "1", "d", "a">>)

\* An optional fieldMap of a remap entry: absent, or a list of [from, to].
NoFieldMap == [defined |-> FALSE, entries |-> <<>>]
FieldMap(entries) == [defined |-> TRUE, entries |-> entries]

\* The table of the source: three entries, none with a fieldMap.
SCRIPT_UUID_MAP ==
    << [key |-> BorderGraphicKey, val |-> [target |-> BorderGraphicTarget, fieldMap |-> NoFieldMap]],
       [key |-> I18nTextKey, val |-> [target |-> I18nTextTarget, fieldMap |-> NoFieldMap]],
       [key |-> CountDownId, val |-> [target |-> CountDownTarget, fieldMap |-> NoFieldMap]] >>

RECURSIVE NormalizeFirst(_, _)
\* result of buildNormalizedScriptMap after the first k entries of the table.
NormalizeFirst(table, k) ==
    IF k = 0 THEN <<>>
    ELSE Set(NormalizeFirst(table, k - 1),
             normalizeToShort(table[k].key),
             [target |-> normalizeToShort(table[k].val.target),
              \* config.fieldMap || {}: an object in either case
              fieldMap |-> FieldMap(table[k].val.fieldMap.entries)])

buildNormalizedScriptMap(table) == NormalizeFirst(table, Len(table))

RECURSIVE MappedFirst(_, _, _)
\* fieldsToMigrate after the first k entries of the rule's fieldMap (632-638).
MappedFirst(v3Comp, entries, k) ==
    IF k = 0 THEN <<>>
    ELSE LET done == MappedFirst(v3Comp, entries, k - 1)
         IN  IF Present(v3Comp, entries[k].from)
             THEN Set(done, entries[k].to, Carried(v3Comp, entries[k].from))
             ELSE done

\* fieldsToMigrate when the rule has no fieldMap (641-650).
AllFields(v3CompType, v3Comp) ==
    LET names == SelectSeq(Keys(v3Comp), LAMBDA f :
                    Present(v3Comp, f) /\ shouldMigrateField(v3CompType, f))
    IN  [k \in 1..Len(names) |-> [key |-> names[k], val |-> Carried(v3Comp, names[k])]]

\* The instruction for the component v3Comp on a matched node, if any.
ScriptInstruction(normalized, nodePath, v3CompType, v3Comp, v2Node) ==
    IF ~HasKey(normalized, v3CompType) THEN <<>>
    ELSE IF ~HasKey(v2Node.components, v3CompType) THEN <<>>
    ELSE LET mappingRule == Get(normalized, v3CompType)
         IN  << [type |-> "REPLACE_COMPONENT_TYPE",
                 nodeId |-> v2Node.__nodeId__,
                 nodePath |-> nodePath,
                 oldCompId |-> Get(v2Node.components, v3CompType)["__compId__"].n,
                 oldCompType |-> v3CompType,
                 newCompType |-> mappingRule.target,
                 fieldsToMigrate |->
                     IF mappingRule.fieldMap.defined
                     THEN MappedFirst(v3Comp, mappingRule.fieldMap.entries,
                                      Len(mappingRule.fieldMap.entries))
                     ELSE AllFields(v3CompType, v3Comp)] >>

generateScriptReplacementInstructions(p3, p2, normalized) ==
    Join([i \in 1..Len(p3) |->
        IF ~HasKey(p2, p3[i].key) THEN <<>>
        ELSE LET v3Node == p3[i].val
             IN  Join([c \in 1..Len(v3Node.components) |->
                     ScriptInstruction(normalized, p3[i].key, v3Node.components[c].key,
                                       v3Node.components[c].val, Get(p2, p3[i].key))])])

RECURSIVE AssignFirst(_, _, _, _)
\* The loop of lines 970-974 over the first k entries of fieldsToMigrate.
AssignFirst(data, slot, fields, k) ==
    IF k = 0 THEN data
    ELSE SetField(AssignFirst(data, slot, fields, k - 1), slot, fields[k].key, fields[k].val)

\* One instruction of applyScriptReplacementInstructions.
ReplaceType(data, instruction) ==
    IF ~Live(data, instruction.nodeId) \/ ~Live(data, instruction.oldCompId) THEN data
    ELSE LET typed == IF TypeOf(data[instruction.oldCompId]) # <<>>
                      THEN SetField(data, instruction.oldCompId, "__type__",
                                    StrV(instruction.newCompType))
                      ELSE data
         IN  AssignFirst(typed, instruction.oldCompId, instruction.fieldsToMigrate,
                         Len(instruction.fieldsToMigrate))

RECURSIVE ReplaceFirstTypes(_, _, _)
ReplaceFirstTypes(data, ins, k) ==
    IF k = 0 THEN data ELSE ReplaceType(ReplaceFirstTypes(data, ins, k - 1), ins[k])

applyScriptReplacementInstructions(data, ins) ==
    compactAndReindexPrefab(ReplaceFirstTypes(data, ins, Len(ins)))

(***************************************************************************)
(* Removal (src/unnamed/part_000, 554-590, 768-812)                        *)
(***************************************************************************)
\* nodeData._components.findIndex(ref => ref.__id__ === compId), 0-based.
findIndex(list, compId) ==
    IF \E i \in 1..Len(list) : list[i] = compId
    THEN (CHOOSE i \in 1..Len(list) :
              list[i] = compId /\ \A j \in 1..(i - 1) : list[j] # compId) - 1
    ELSE -1

\* The instruction for one component of a node of the tree, if any.
RemovalInstruction(data, nodePath, v2Node, compType, v2Comp) ==
    IF ~ToRemove(compType) THEN <<>>
    ELSE IF ~(Live(data, v2Node.__nodeId__) /\ Has(data[v2Node.__nodeId__], "_components"))
    THEN <<>>
    ELSE LET compIndex == findIndex(RefList(data[v2Node.__nodeId__], "_components"),
                                    v2Comp["__compId__"].n)
         IN  IF compIndex # -1
             THEN << [type |-> "REMOVE_COMPONENT",
                      nodeId |-> v2Node.__nodeId__,
                      compId |-> v2Comp["__compId__"].n,
                      compType |-> compType,
                      compIndex |-> compIndex,
                      nodePath |-> nodePath] >>
             ELSE <<>>

generateRemovalInstructions(p2, data) ==
    Join([i \in 1..Len(p2) |->
        Join([c \in 1..Len(p2[i].val.components) |->
            RemovalInstruction(data, p2[i].key, p2[i].val,
                               p2[i].val.components[c].key, p2[i].val.components[c].val)])])

RECURSIVE SortByCompIndexDesc(_)
\* [...removalInstructions].sort((a, b) => b.compIndex - a.compIndex): stable.
SortByCompIndexDesc(ins) ==
    IF ins = <<>> THEN <<>>
    ELSE LET top == CHOOSE i \in 1..Len(ins) :
                        /\ \A j \in 1..Len(ins) : ins[j].compIndex <= ins[i].compIndex
                        /\ \A j \in 1..(i - 1) : ins[j].compIndex < ins[i].compIndex
         IN  <<ins[top]>> \o SortByCompIndexDesc(SubSeq(ins, 1, top - 1) \o SubSeq(ins, top + 1, Len(ins)))

\* list.splice(index, 1) with a 0-based index
Splice(list, index) == SubSeq(list, 1, index) \o SubSeq(list, index + 2, Len(list))

\* One instruction of the loop of applyRemovalInstructions (778-807).
Remove(data, instruction) ==
    IF Live(data, instruction.nodeId) /\ Has(data[instruction.nodeId], "_components")
    THEN LET list == RefList(data[instruction.nodeId], "_components")
             spliced ==
                 IF instruction.compIndex >= 0 /\ instruction.compIndex < Len(list)
                 THEN SetField(data, instruction.nodeId, "_components",
                               [data[instruction.nodeId]["_components"] EXCEPT
                                   !.list = Splice(list, instruction.compIndex)])
                 ELSE data
         IN  IF Live(data, instruction.compId)
             THEN [spliced EXCEPT ![instruction.compId] = Tomb]
             ELSE spliced
    ELSE data

RECURSIVE RemoveFirst(_, _, _)
RemoveFirst(data, ins, k) ==
    IF k = 0 THEN data ELSE Remove(RemoveFirst(data, ins, k - 1), ins[k])

\* The array at line 810: every instruction applied, not yet compacted.
Removed(data, ins) ==
    LET sortedInstructions == SortByCompIndexDesc(ins)
    IN  RemoveFirst(data, sortedInstructions, Len(sortedInstructions))

applyRemovalInstructions(data, ins) == compactAndReindexPrefab(Removed(data, ins))

(***************************************************************************)
(* Global substitution (src/unnamed/part_000, 672-705, 814-869)            *)
(***************************************************************************)
At == Ord("@")

FallbackFrom == Str(<<"@", "f", "9", "9", "4", "1">>)
FallbackTo == Str(<<"@", "6", "c", "4", "8", "a">>)

StringIns(from, to) == [type |-> "REPLACE_STRING_GLOBAL", from |-> from, to |-> to]

\* A variant of the sort that leaves the list in the order of the table.
SortNothing(res) == res

\* res.sort(...) of lines 688-698: the entries whose from has an "@" first,
\* the order otherwise kept.
SortAtFirst(res) ==
    SelectSeq(res, LAMBDA e : IncludesChar(e.from, At))
    \o SelectSeq(res, LAMBDA e : ~IncludesChar(e.from, At))

\* generateGlobalStringReplaceInstructions, given the mapping that
\* generateUuidMapping built from the two identifier tables (the files it
\* reads): a list of [key (v3 identifier), val (v2 identifier)] in key order.
generateGlobalStringReplaceInstructions(table) ==
    Append(SortAtFirst([k \in 1..Len(table) |-> StringIns(table[k].key, table[k].val)]),
           StringIns(FallbackFrom, FallbackTo))

RECURSIVE SplitJoin(_, _, _)
\* str.split(from).join(to) for a non-empty from.
SplitJoin(str, from, to) ==
    LET i == IndexOfFrom(str, from, 1)
    IN  IF i = 0 THEN str
        ELSE SubSeq(str, 1, i - 1) \o to
             \o SplitJoin(SubSeq(str, i + Len(from), Len(str)), from, to)

\* replaceString(str, from, to) for a string from; with an empty from, split
\* cuts between every two characters.
replaceString(str, from, to) ==
    IF from = <<>>
    THEN Join([k \in 1..Len(str) |-> IF k = 1 THEN <<str[k]>> ELSE to \o <<str[k]>>])
    ELSE IF Includes(str, from) THEN SplitJoin(str, from, to)
    ELSE str

\* traverse(item, from, to) on one field value: a string is replaced, and so
\* is the kind held by a tree-form reference object.
ReplaceInValue(v, from, to) ==
    IF v.tag \in {"str", "tref"} THEN [v EXCEPT !.s = replaceString(v.s, from, to)] ELSE v

\* One instruction applied to every record of the array.
ReplaceEverywhere(data, ins) ==
    [i \in DOMAIN data |->
        IF data[i] = Tomb THEN Tomb
        ELSE [f \in DOMAIN data[i] |-> ReplaceInValue(data[i][f], ins.from, ins.to)]]

RECURSIVE ReplaceWithFirst(_, _, _)
ReplaceWithFirst(data, ins, k) ==
    IF k = 0 THEN data
    ELSE IF ins[k].type # "REPLACE_STRING_GLOBAL" THEN ReplaceWithFirst(data, ins, k - 1)
    ELSE ReplaceEverywhere(ReplaceWithFirst(data, ins, k - 1), ins[k])

applyStringReplaceInstructions(data, ins) == ReplaceWithFirst(data, ins, Len(ins))

(***************************************************************************)
(* migratePrefab (src/unnamed/part_000, 992-1031)                          *)
(***************************************************************************)
\* A variant of migratePrefab that plans and applies the removal before it
\* applies the migration instructions.
migratePrefabRemovalFirst ==
    <<"project", "planMigration", "planScript", "planRemoval", "applyRemoval",
      "applyMigration", "applyScript", "substitute">>

\* The statements of migratePrefab in their order; pc is the position of the
\* next one, Len + 1 once migratePrefab has returned, -1 once it has thrown.
migratePrefabSteps ==
    <<"project", "planMigration", "planScript", "applyMigration", "applyScript",
      "planRemoval", "applyRemoval", "substitute">>

StepIs(name) == pc \in 1..Len(migratePrefabSteps) /\ migratePrefabSteps[pc] = name

\* The statement name has been executed.
After(name) ==
    \E k \in 1..Len(migratePrefabSteps) :
        migratePrefabSteps[k] = name /\ pc > k

\* The statement name is the one executed last.
JustAfter(name) == pc \in 2..(Len(migratePrefabSteps) + 1) /\ migratePrefabSteps[pc - 1] = name

Returned == pc = Len(migratePrefabSteps) + 1

\* NORMALIZED_SCRIPT_UUID_MAP (line 257), for the table of this run.
NORMALIZED_SCRIPT_UUID_MAP == buildNormalizedScriptMap(scriptMap)

Project ==
    /\ StepIs("project")
    /\ LET v3Tree == parsePrefab(v3PrefabData)
           v2Tree == parsePrefab(v2PrefabData)
       IN  IF v3Tree = NoTree \/ v2Tree = NoTree
           THEN \* buildPathMap(null): Object.entries throws
                pc' = -1 /\ UNCHANGED <<v3PathMap, v2PathMap>>
           ELSE /\ v3PathMap' = buildPathMap(v3Tree)
                /\ v2PathMap' = buildPathMap(v2Tree)
                /\ pc' = pc + 1
    /\ UNCHANGED <<v3PrefabData, v2PrefabData, v2Input, scriptMap, instructions,
                   scriptInstructions, removalInstructions, atRemoval, finalOutput, replaceVars>>

PlanMigration ==
    /\ StepIs("planMigration")
    /\ instructions' = generateMigrationInstructions(v3PathMap, v2PathMap)
    /\ pc' = pc + 1
    /\ UNCHANGED <<v3PrefabData, v2PrefabData, v2Input, scriptMap, v3PathMap, v2PathMap,
                   scriptInstructions, removalInstructions, atRemoval, finalOutput, replaceVars>>

PlanScript ==
    /\ StepIs("planScript")
    /\ scriptInstructions' =
           generateScriptReplacementInstructions(v3PathMap, v2PathMap, NORMALIZED_SCRIPT_UUID_MAP)
    /\ pc' = pc + 1
    /\ UNCHANGED <<v3PrefabData, v2PrefabData, v2Input, scriptMap, v3PathMap, v2PathMap,
                   instructions, removalInstructions, atRemoval, finalOutput, replaceVars>>

ApplyMigration ==
    /\ StepIs("applyMigration")
    /\ v2PrefabData' = applyMigrationInstructions(v2PrefabData, instructions)
    /\ pc' = pc + 1
    /\ UNCHANGED <<v3PrefabData, v2Input, scriptMap, v3PathMap, v2PathMap, instructions,
                   scriptInstructions, removalInstructions, atRemoval, finalOutput, replaceVars>>

ApplyScript ==
    /\ StepIs("applyScript")
    /\ v2PrefabData' = applyScriptReplacementInstructions(v2PrefabData, scriptInstructions)
    /\ pc' = pc + 1
    /\ UNCHANGED <<v3PrefabData, v2Input, scriptMap, v3PathMap, v2PathMap, instructions,
                   scriptInstructions, removalInstructions, atRemoval, finalOutput, replaceVars>>

PlanRemoval ==
    /\ StepIs("planRemoval")
    /\ removalInstructions' = generateRemovalInstructions(v2PathMap, v2PrefabData)
    /\ pc' = pc + 1
    /\ UNCHANGED <<v3PrefabData, v2PrefabData, v2Input, scriptMap, v3PathMap, v2PathMap,
                   instructions, scriptInstructions, atRemoval, finalOutput, replaceVars>>

\* atRemoval keeps the array as it is when the removal instructions are applied.
ApplyRemoval ==
    /\ StepIs("applyRemoval")
    /\ atRemoval' = v2PrefabData
    /\ v2PrefabData' = applyRemovalInstructions(v2PrefabData, removalInstructions)
    /\ pc' = pc + 1
    /\ UNCHANGED <<v3PrefabData, v2Input, scriptMap, v3PathMap, v2PathMap, instructions,
                   scriptInstructions, removalInstructions, finalOutput, replaceVars>>

Substitute ==
    /\ StepIs("substitute")
    /\ stringInstructions' = generateGlobalStringReplaceInstructions(mapping)
    /\ v2PrefabData' = applyStringReplaceInstructions(v2PrefabData, stringInstructions')
    /\ pc' = pc + 1
    /\ UNCHANGED <<v3PrefabData, v2Input, scriptMap, v3PathMap, v2PathMap, instructions,
                   scriptInstructions, removalInstructions, atRemoval, finalOutput, rpc,
                   mapping, strData, strInput>>

\* migrateFile, 1044-1048: the array migratePrefab returned is serialised and
\* written to the output path; finalOutput holds the written documents.
WriteOutput ==
    /\ Returned
    /\ finalOutput' = <<v2PrefabData>>
    /\ pc' = pc + 1
    /\ UNCHANGED <<v3PrefabData, v2PrefabData, v2Input, scriptMap, v3PathMap, v2PathMap,
                   instructions, scriptInstructions, removalInstructions, atRemoval,
                   replaceVars>>

(***************************************************************************)
(* Migration run: the source and target arrays of one call of migratePrefab*)
(***************************************************************************)
\* The record with the fields and values of the pairs q.
Rec(q) == [f \in {q[i][1] : i \in 1..Len(q)} |-> q[CHOOSE i \in 1..Len(q) : q[i][1] = f][2]]

Btn == Str(<<"B", "t", "n">>)
Extra == Str(<<"E", "x", "t", "r", "a">>)
OldText == Str(<<"o", "l", "d">>)
NewText == Str(<<"n", "e", "w">>)
OldFrame == Str(<<"a", "b", "@", "f", "9", "9", "4", "1">>)
NewFrame == Str(<<"c", "d", "@", "f", "9", "9", "4", "1">>)

\* The most tombstones at the head of a target array.
MaxTomb == 1

\* The kind a script component has in the graph for entry e of the table:
\* the identifier of the key in its compact or in its long form.
ScriptKind(e, long) ==
    LET key == SCRIPT_UUID_MAP[e].key
    IN  IF long THEN (IF isLongUUID(key) THEN key ELSE decodeUuid(key))
        ELSE (IF isLongUUID(key) THEN encodeUuid(key, FALSE) ELSE key)

\* The source array: Root (UIOpacity, Sprite, Label) with the children Btn
\* (UITransform, Button, a script component) and Extra; slot 8 is empty.
\* Its records have no _id, which tells the records of the target apart.
SourceGraph(opacity, text, target, kind) ==
    Arr(<< Rec(<< <<"__type__", StrV(ccNode)>>, <<"_name", StrV(RootName)>>,
                  <<"_children", Refs(<<4, 9>>)>>, <<"_components", Refs(<<1, 2, 3>>)>> >>),
           Rec(<< <<"__type__", StrV(cc \o UIOpacity)>>, <<"node", Ref(0)>>,
                  <<"_opacity", opacity>> >>),
           Rec(<< <<"__type__", StrV(cc \o Sprite)>>, <<"node", Ref(0)>>,
                  <<"_color", Num(7)>>, <<"url", StrV(OldFrame)>> >>),
           Rec(<< <<"__type__", StrV(cc \o Label)>>, <<"node", Ref(0)>>,
                  <<"_color", Num(9)>>, <<"_string", text>> >>),
           Rec(<< <<"__type__", StrV(ccNode)>>, <<"_name", StrV(Btn)>>,
                  <<"_parent", Ref(0)>>, <<"_children", Refs(<<>>)>>,
                  <<"_components", Refs(<<5, 6, 7>>)>> >>),
           Rec(<< <<"__type__", StrV(cc \o UITransform)>>, <<"node", Ref(4)>>,
                  <<"_contentSize", Num(20)>>, <<"_anchorPoint", Num(5)>> >>),
           Rec(<< <<"__type__", StrV(cc \o Button)>>, <<"node", Ref(4)>>,
                  <<"_target", Ref(target)>>, <<"_transition", Num(2)>>,
                  <<"clickEvents", Refs(<<7>>)>> >>),
           Rec(<< <<"__type__", StrV(kind)>>, <<"node", Ref(4)>>,
                  <<"foo", Num(11)>>, <<"bar", Null>> >>),
           Tomb,
           Rec(<< <<"__type__", StrV(ccNode)>>, <<"_name", StrV(Extra)>>,
                  <<"_parent", Ref(0)>>, <<"_children", Refs(<<>>)>>,
                  <<"_components", Refs(<<>>)>> >>) >>)

\* The target array: lead tombstones, then Root (two components of the kinds
\* first and second, Label) with the child Btn (UITransform, Button, a script
\* component); with linked, the Button refers to the UITransform.
TargetGraph(lead, first, second, linked, kind) ==
    Arr([k \in 1..lead |-> Tomb] \o
        << Rec(<< <<"__type__", StrV(ccNode)>>, <<"_name", StrV(RootName)>>, <<"_id", Num(200)>>,
                  <<"_children", Refs(<<lead + 4>>)>>,
                  <<"_components", Refs(<<lead + 1, lead + 2, lead + 3>>)>> >>),
           Rec(<< <<"__type__", StrV(cc \o first)>>, <<"_id", Num(201)>>, <<"node", Ref(lead)>>,
                  <<"_opacity", Num(255)>>, <<"_color", Num(1)>>, <<"url", StrV(OldText)>> >>),
           Rec(<< <<"__type__", StrV(cc \o second)>>, <<"_id", Num(202)>>, <<"node", Ref(lead)>>,
                  <<"_opacity", Num(128)>>, <<"_color", Num(2)>>, <<"url", StrV(OldText)>> >>),
           Rec(<< <<"__type__", StrV(cc \o Label)>>, <<"_id", Num(203)>>, <<"node", Ref(lead)>>,
                  <<"_string", StrV(OldText)>>, <<"_N$string", StrV(OldText)>> >>),
           Rec(<< <<"__type__", StrV(ccNode)>>, <<"_name", StrV(Btn)>>, <<"_id", Num(204)>>,
                  <<"_parent", Ref(lead)>>, <<"_children", Refs(<<>>)>>,
                  <<"_components", Refs(<<lead + 5, lead + 6, lead + 7>>)>> >>),
           Rec(<< <<"__type__", StrV(cc \o UITransform)>>, <<"_id", Num(205)>>,
                  <<"node", Ref(lead + 4)>>, <<"_contentSize", Num(10)>> >>),
           Rec(<< <<"__type__", StrV(cc \o Button)>>, <<"_id", Num(206)>>, <<"node", Ref(lead + 4)>>,
                  <<"_target", Ref(lead + 4)>>,
                  <<"_N$target", Ref(lead + 4)>>,
                  <<"ref", Ref(IF linked THEN lead + 5 ELSE lead + 4)>>,
                  <<"transition", Num(0)>>, <<"clickEvents", Refs(<<>>)>> >>),
           Rec(<< <<"__type__", StrV(kind)>>, <<"_id", Num(207)>>, <<"node", Ref(lead + 4)>>,
                  <<"foo", Num(1)>>, <<"bar", Num(2)>> >>) >>)

\* The table of the source, and the same table with a fieldMap on every entry.
ScriptMaps ==
    { SCRIPT_UUID_MAP,
      [k \in 1..Len(SCRIPT_UUID_MAP) |->
          [SCRIPT_UUID_MAP[k] EXCEPT !.val.fieldMap =
              FieldMap(<< [from |-> "foo", to |-> "bar"], [from |-> "bar", to |-> "foo"] >>)]] }

\* The identifier mapping of the run: the sprite frame of the source has a
\* counterpart in the target version.
RunMapping == << [key |-> OldFrame, val |-> NewFrame] >>

\* A document that is not an array.
NotArray == Arr(<<NotArrayMark>>)

\* An array whose only node names itself as its parent: it has no root.
NoRootDoc ==
    Arr(<< Rec(<< <<"__type__", StrV(ccNode)>>, <<"_name", StrV(RootName)>>,
                  <<"_parent", Ref(0)>>, <<"_children", Refs(<<>>)>>,
                  <<"_components", Refs(<<>>)>> >>) >>)

GoodSource == SourceGraph(Num(200), StrV(NewText), 4, BorderGraphicKey)
GoodTarget == TargetGraph(0, UIOpacity, Sprite, FALSE, BorderGraphicKey)

\* The pairs of documents of which one fails a structural precondition.
BrokenPairs ==
    { <<NotArray, GoodTarget>>, <<GoodSource, NotArray>>,
      <<NoRootDoc, GoodTarget>>, <<GoodSource, NoRootDoc>>, <<NotArray, NoRootDoc>> }

InitMigrate ==
    /\ pc = 1
    /\ \/ \E opacity \in {Num(200), Null}, text \in {StrV(NewText), Null},
             target \in {0, 4, 8, 9}, entry \in {1, 3}, long \in BOOLEAN,
             lead \in 0..MaxTomb, first \in {UIOpacity, Sprite}, second \in {UIOpacity, Sprite},
             linked \in BOOLEAN :
               /\ v3PrefabData = SourceGraph(opacity, text, target, ScriptKind(entry, long))
               /\ v2PrefabData = TargetGraph(lead, first, second, linked, ScriptKind(entry, long))
       \/ \E pair \in BrokenPairs : v3PrefabData = pair[1] /\ v2PrefabData = pair[2]
    /\ v2Input = v2PrefabData
    /\ scriptMap \in ScriptMaps
    /\ v3PathMap = <<>> /\ v2PathMap = <<>> /\ instructions = <<>>
    /\ scriptInstructions = <<>> /\ removalInstructions = <<>> /\ atRemoval = <<>>
    /\ finalOutput = <<>>
    /\ rpc = "idle" /\ mapping = RunMapping /\ stringInstructions = <<>>
    /\ strData = <<>> /\ strInput = <<>>
    /\ IdleCodec /\ IdleCompact /\ IdleDirectory /\ IdleProject /\ IdleApply /\ IdleRemove

NextMigrate ==
    /\ \/ Project \/ PlanMigration \/ PlanScript \/ ApplyMigration
       \/ ApplyScript \/ PlanRemoval \/ ApplyRemoval \/ Substitute \/ WriteOutput
    /\ UNCHANGED <<codecVars, compactVars, directoryVars, projectVars, applyVars, removeVars>>

Spec == InitMigrate /\ [][NextMigrate]_vars

\* The pairs of components that generateMigrationInstructions matches: the
\* same path in both path maps and the same kind on both nodes.
MatchedComponents ==
    UNION {
        {[path |-> v3PathMap[i].key, kind |-> v3PathMap[i].val.components[c].key,
          v3Comp |-> v3PathMap[i].val.components[c].val,
          v2Comp |-> Get(Get(v2PathMap, v3PathMap[i].key).components,
                         v3PathMap[i].val.components[c].key)] :
            c \in {d \in 1..Len(v3PathMap[i].val.components) :
                      HasKey(Get(v2PathMap, v3PathMap[i].key).components,
                             v3PathMap[i].val.components[d].key)}} :
        i \in {j \in 1..Len(v3PathMap) : HasKey(v2PathMap, v3PathMap[j].key)}}

\* The names of the fields of the MIGRATE_COMPONENT instructions for the
\* target component in slot compId.
MigratedFields(compId) ==
    UNION {{instructions[k].fields[j].field : j \in 1..Len(instructions[k].fields)} :
           k \in {l \in 1..Len(instructions) :
                     /\ instructions[l].type = "MIGRATE_COMPONENT"
                     /\ instructions[l].targetCompId = compId}}

RemovalKinds == {cc \o COMPONENTS_TO_REMOVE[i] : i \in 1..Len(COMPONENTS_TO_REMOVE)}

\* The slots that the removal instructions empty.
RemovedSlots ==
    LiveSlots(atRemoval) \ LiveSlots(Removed(atRemoval, removalInstructions))

\* The value v holds, at the place where w held a removed slot, that same slot.
KeepsRemovedSlot(w, v) ==
    \/ w.tag = "ref" /\ w.n \in RemovedSlots /\ v.tag = "ref" /\ v.n = w.n
    \/ /\ w.tag = "refs" /\ v.tag = "refs"
       /\ \E k \in 1..Len(w.list) : w.list[k] \in RemovedSlots /\ v.list[k] = w.list[k]

\* C2 (as stated): once the removal instructions planned for a target array
\* without empty slots have been applied, no record of the compacted array has
\* a kind of the removal list (UIOpacity, UITransform), and no reference of a
\* surviving record still holds the former slot of a removed component.
C2_RemovedKindsGone ==
    (JustAfter("applyRemoval") /\ LiveSlots(v2Input) = DOMAIN v2Input) =>
        /\ \A i \in DOMAIN v2PrefabData : TypeOf(v2PrefabData[i]) \notin RemovalKinds
        /\ LET kept == Removed(atRemoval, removalInstructions)
           IN  \A i \in LiveSlots(kept) : \A f \in DOMAIN kept[i] :
                  ~KeepsRemovedSlot(kept[i][f], v2PrefabData[oldToNewIdMap(kept, i)][f])

\* C3 (as stated): when every reference of the target array resolves to a
\* record of it before the migration, every reference of the array that
\* migratePrefab returns resolves to a record of that array.
C3_ReferencesResolve ==
    (Returned /\ RefsOf(v2Input) \subseteq LiveSlots(v2Input)) =>
        RefsOf(v2PrefabData) \subseteq LiveSlots(v2PrefabData)

\* C4 (as stated): for every matched pair of components, no field of the
\* source component that holds a reference to a slot of the source array
\* (whatever the slot holds) is among the fields of the MIGRATE_COMPONENT
\* instruction for the target component.
C4_NoReferenceCopied ==
    After("planMigration") =>
        \A m \in MatchedComponents :
            \A f \in DOMAIN v3PrefabData[m.v3Comp["__compId__"].n] :
                v3PrefabData[m.v3Comp["__compId__"].n][f].tag = "ref"
                    => f \notin MigratedFields(m.v2Comp["__compId__"].n)

\* The field f of a matched pair is on both components, is not reserved, is
\* not excluded by the whitelist of the kind, and its source value is no
\* reference.
GenericField(m, f) ==
    /\ f \in DOMAIN m.v3Comp /\ f \in DOMAIN m.v2Comp
    /\ f \notin {"node", "__compId__", "__ref__"}
    /\ HasKey(FIELD_WHITELIST, m.kind) =>
           \E i \in 1..Len(Get(FIELD_WHITELIST, m.kind)) : Get(FIELD_WHITELIST, m.kind)[i] = f
    /\ m.v3Comp[f].tag \notin {"tref", "uref", "rec"}

SameRecord(data, slot) ==
    {i \in LiveSlots(data) : Has(data[i], "_id") /\ data[i]["_id"] = v2Input[slot]["_id"]}

\* The redirects to the node of a kind of the removal list whose component on
\* that node a removal instruction names.
RemovedTransfers ==
    {k \in 1..Len(instructions) :
        /\ instructions[k].type = "TRANSFORM_TO_NODE"
        /\ ToRemove(instructions[k].source[1])
        /\ \E r \in 1..Len(removalInstructions) :
              /\ removalInstructions[r].compType = instructions[k].source[1]
              /\ removalInstructions[r].nodeId = instructions[k].targetNodeId}

\* C7: removal is planned and applied only after the migration instructions
\* have been applied; when a component of a kind of the removal list whose
\* rule redirects a field to the node is removed, the node record holds the
\* transferred value in the array the removal is applied to, and holds it in
\* the array migratePrefab returns.
C7_TransferredBeforeRemoval ==
    /\ (StepIs("planRemoval") \/ StepIs("applyRemoval")) => After("applyMigration")
    /\ After("applyRemoval") =>
          \A k \in RemovedTransfers :
              /\ SameRecord(atRemoval, instructions[k].targetNodeId) # {}
              /\ \A i \in SameRecord(atRemoval, instructions[k].targetNodeId) :
                    /\ Has(atRemoval[i], instructions[k].field)
                    /\ atRemoval[i][instructions[k].field] = instructions[k].value
              /\ SameRecord(v2PrefabData, instructions[k].targetNodeId) # {}
              /\ \A i \in SameRecord(v2PrefabData, instructions[k].targetNodeId) :
                    /\ Has(v2PrefabData[i], instructions[k].field)
                    /\ v2PrefabData[i][instructions[k].field] = instructions[k].value

\* migratePrefab has returned, a UIOpacity was removed from a node that had no
\* _opacity, and the node of the returned array has the _opacity of the source.
C7_Witness ==
    /\ Returned
    /\ \E k \in RemovedTransfers :
          /\ instructions[k].source[1] = UIOpacity
          /\ ~Has(v2Input[instructions[k].targetNodeId], "_opacity")
          /\ \A i \in DOMAIN v2PrefabData : TypeOf(v2PrefabData[i]) # cc \o UIOpacity
          /\ \E i \in SameRecord(v2PrefabData, instructions[k].targetNodeId) :
                v2PrefabData[i]["_opacity"] = Num(200)

\* The long form of an identifier written in either form.
LongForm(u) == IF isLongUUID(u) THEN u ELSE decodeUuid(u)

\* C9 (as stated): for every entry of the script remap table and every
\* matched pair of components whose kind is the identifier of the entry's key,
\* in its long or in its compact form, generateScriptReplacementInstructions
\* emits a REPLACE_COMPONENT_TYPE instruction for the component.
C9_FoundInEitherForm ==
    After("planScript") =>
        \A m \in MatchedComponents :
            (\E e \in 1..Len(scriptMap) : LongForm(scriptMap[e].key) = LongForm(m.kind)) =>
                \E k \in 1..Len(scriptInstructions) :
                    /\ scriptInstructions[k].oldCompType = m.kind
                    /\ scriptInstructions[k].nodePath = m.path

\* The names of the fields an instruction carries.
CarriedNames(ins) == {ins.fieldsToMigrate[j].key : j \in 1..Len(ins.fieldsToMigrate)}

\* C10 (as stated): a REPLACE_COMPONENT_TYPE instruction whose remap entry
\* has a field map carries exactly the mapped fields, renamed, whose source
\* value is present; one whose remap entry has no field map carries every
\* non-reserved field of the source component that is present, with its value.
C10_FieldsCarried ==
    After("planScript") =>
        \A k \in 1..Len(scriptInstructions) : \A e \in 1..Len(scriptMap) :
            normalizeToShort(scriptMap[e].key) = scriptInstructions[k].oldCompType =>
                LET ins == scriptInstructions[k]
                    v3Comp == Get(Get(v3PathMap, ins.nodePath).components, ins.oldCompType)
                    fieldMap == scriptMap[e].val.fieldMap
                IN  IF fieldMap.defined
                    THEN /\ CarriedNames(ins) =
                                {fieldMap.entries[j].to :
                                    j \in {x \in 1..Len(fieldMap.entries) :
                                              Present(v3Comp, fieldMap.entries[x].from)}}
                         /\ \A j \in 1..Len(ins.fieldsToMigrate) :
                               \E x \in 1..Len(fieldMap.entries) :
                                  /\ fieldMap.entries[x].to = ins.fieldsToMigrate[j].key
                                  /\ Present(v3Comp, fieldMap.entries[x].from)
                                  /\ ins.fieldsToMigrate[j].val = Carried(v3Comp, fieldMap.entries[x].from)
                    ELSE \A f \in DOMAIN v3Comp :
                            (f \notin {"node", "__compId__", "__ref__"} /\ Present(v3Comp, f)) =>
                                /\ f \in CarriedNames(ins)
                                /\ Get(ins.fieldsToMigrate, f) = Carried(v3Comp, f)

\* The transfers the rules with the node itself as target ask for: for every
\* path of both path maps, every component of the source node, every rule of
\* its kind with target Node and every mapped field whose source value is
\* present, the slot of the target node, the destination field and the value.
SelfTransfers ==
    UNION { UNION { UNION { UNION {
        {[path |-> v3PathMap[i].key, kind |-> v3PathMap[i].val.components[c].key,
          nodeId |-> Get(v2PathMap, v3PathMap[i].key).__nodeId__,
          field |-> Get(COMPONENT_TRANSFORM_RULES, v3PathMap[i].val.components[c].key)[r]
                        .fieldMap[e].to[t],
          value |-> Carried(v3PathMap[i].val.components[c].val,
                            Get(COMPONENT_TRANSFORM_RULES, v3PathMap[i].val.components[c].key)[r]
                                .fieldMap[e].from)] :
            t \in 1..Len(Get(COMPONENT_TRANSFORM_RULES,
                              v3PathMap[i].val.components[c].key)[r].fieldMap[e].to)} :
          e \in {d \in 1..Len(Get(COMPONENT_TRANSFORM_RULES,
                                   v3PathMap[i].val.components[c].key)[r].fieldMap) :
                    Present(v3PathMap[i].val.components[c].val,
                            Get(COMPONENT_TRANSFORM_RULES,
                                v3PathMap[i].val.components[c].key)[r].fieldMap[d].from)}} :
          r \in {q \in 1..Len(Get(COMPONENT_TRANSFORM_RULES, v3PathMap[i].val.components[c].key)) :
                    Get(COMPONENT_TRANSFORM_RULES,
                        v3PathMap[i].val.components[c].key)[q].target = Node}} :
          c \in {d \in 1..Len(v3PathMap[i].val.components) :
                    HasKey(COMPONENT_TRANSFORM_RULES, v3PathMap[i].val.components[d].key)}} :
          i \in {j \in 1..Len(v3PathMap) : HasKey(v2PathMap, v3PathMap[j].key)}}

\* The target node of the transfer has no component of the source kind.
KindMissing(x) == ~HasKey(Get(v2PathMap, x.path).components, x.kind)

\* C14: after applyMigrationInstructions, every field a rule with the node
\* itself as target maps, and whose source value is present, is set on the
\* target node record of the matched path to a value transferred to it, also
\* when the target node has no component of the source kind; a source
\* UIOpacity._opacity of 200 on a node whose target has no UIOpacity is the
\* _opacity of that node in the output, and an output whose target array had
\* no UIOpacity component has none.
C14_SelfRulesAssign ==
    /\ JustAfter("applyMigration") =>
          \A x \in SelfTransfers :
              /\ Has(v2PrefabData[x.nodeId], x.field)
              /\ \E y \in SelfTransfers :
                    /\ y.nodeId = x.nodeId /\ y.field = x.field
                    /\ v2PrefabData[x.nodeId][x.field] = y.value
    /\ After("applyMigration") =>
          \A x \in SelfTransfers :
              (x.kind = UIOpacity /\ x.value = Num(200) /\ KindMissing(x)) =>
                  /\ SameRecord(v2PrefabData, x.nodeId) # {}
                  /\ \A i \in SameRecord(v2PrefabData, x.nodeId) :
                        /\ Has(v2PrefabData[i], "_opacity")
                        /\ v2PrefabData[i]["_opacity"] = Num(200)
                  /\ (\A j \in LiveSlots(v2Input) : TypeOf(v2Input[j]) # cc \o UIOpacity) =>
                        \A j \in LiveSlots(v2PrefabData) :
                            TypeOf(v2PrefabData[j]) # cc \o UIOpacity

\* The source UIOpacity of a node whose target has no UIOpacity and no
\* _opacity gave the target node its _opacity of 200, and the written output
\* holds no UIOpacity component.
C14_Witness ==
    /\ finalOutput # <<>>
    /\ \A j \in LiveSlots(finalOutput[1]) : TypeOf(finalOutput[1][j]) # cc \o UIOpacity
    /\ \E x \in SelfTransfers :
          /\ x.kind = UIOpacity /\ x.value = Num(200) /\ KindMissing(x)
          /\ ~Has(v2Input[x.nodeId], "_opacity")
          /\ \E i \in SameRecord(finalOutput[1], x.nodeId) :
                finalOutput[1][i]["_opacity"] = Num(200)

\* A document fails a structural precondition of the projector: it is not an
\* array, or no node record of it lacks a parent reference.
NoRootNode(data) ==
    \A i \in LiveSlots(data) :
        TypeOf(data[i]) = ccNode => Has(data[i], "_parent") /\ data[i]["_parent"].tag = "ref"

Malformed(data) == ~IsArray(data) \/ NoRootNode(data)

StillAt(slot) ==
    /\ Live(v2PrefabData, slot) /\ Has(v2PrefabData[slot], "_id")
    /\ v2PrefabData[slot]["_id"] = v2Input[slot]["_id"]

\* C19: when the removal instructions are planned and when they are applied,
\* after the compaction that follows script-type replacement, every node slot
\* and component slot of the tree view of the target still holds the record
\* it held when the tree was built; and once they are applied, no component of
\* a kind of the removal list that the tree view identified is in the array.
C19_SlotIdsStayValid ==
    /\ (StepIs("planRemoval") \/ StepIs("applyRemoval")) =>
          \A p \in 1..Len(v2PathMap) :
              /\ StillAt(v2PathMap[p].val.__nodeId__)
              /\ \A c \in 1..Len(v2PathMap[p].val.components) :
                    StillAt(v2PathMap[p].val.components[c].val["__compId__"].n)
    /\ JustAfter("applyRemoval") =>
          \A p \in 1..Len(v2PathMap) : \A c \in 1..Len(v2PathMap[p].val.components) :
              ToRemove(v2PathMap[p].val.components[c].key) =>
                  SameRecord(v2PrefabData,
                             v2PathMap[p].val.components[c].val["__compId__"].n) = {}

(***************************************************************************)
(* Substitution run: the global substitution list built from an identifier *)
(* table and applied to an array of records with strings                   *)
(***************************************************************************)
VariantFrom == Str(<<"a", "b", "c", "@", "v", "1">>)
VariantTo == Str(<<"x", "y", "z", "@", "v", "2">>)
PlainFrom == Str(<<"a", "b", "c">>)
PlainTo == Str(<<"x", "y", "z">>)
Mixed == Str(<<"x", "y", "z", "@", "v", "1">>)
TexFrom == Str(<<"t", "e", "x">>)
TexTo == Str(<<"i", "m", "g">>)
AssetPath ==
    Str(<<"a", "s", "s", "e", "t", "s", "/", "a", "b", "c", "@", "v", "1", "/",
          "t", "e", "x", ".", "p", "n", "g">>)

\* The entries an identifier table is drawn from.
TableEntries ==
    { [key |-> VariantFrom, val |-> VariantTo],
      [key |-> PlainFrom, val |-> PlainTo],
      [key |-> TexFrom, val |-> TexTo] }

\* The most entries of a table.
MaxTable == 3

\* The tables: the lists of distinct entries, in every order.
Tables ==
    UNION {{t \in [1..n -> TableEntries] : \A i, j \in 1..n : i # j => t[i] # t[j]} :
           n \in 0..MaxTable}

GraphStrings == {AssetPath, VariantFrom, PlainFrom, OldFrame}

InitReplace ==
    /\ rpc = "start"
    /\ mapping \in Tables
    /\ \E a \in GraphStrings, b \in GraphStrings :
          strData = Arr(<< Rec(<< <<"__type__", StrV(cc \o Sprite)>>, <<"url", StrV(a)>> >>),
                           Tomb,
                           Rec(<< <<"__type__", StrV(cc \o Label)>>, <<"_string", StrV(b)>>,
                                  <<"node", Ref(0)>> >>) >>)
    /\ strInput = strData
    /\ stringInstructions = <<>>
    /\ IdleCodec /\ IdleCompact /\ IdleMigrate /\ IdleDirectory /\ IdleProject /\ IdleApply /\ IdleRemove

Generate ==
    /\ rpc = "start"
    /\ stringInstructions' = generateGlobalStringReplaceInstructions(mapping)
    /\ rpc' = "generated"
    /\ UNCHANGED <<mapping, strData, strInput>>

ApplyStrings ==
    /\ rpc = "generated"
    /\ strData' = applyStringReplaceInstructions(strData, stringInstructions)
    /\ rpc' = "applied"
    /\ UNCHANGED <<mapping, stringInstructions, strInput>>

NextReplace ==
    /\ Generate \/ ApplyStrings
    /\ UNCHANGED <<codecVars, compactVars, migrateVars, directoryVars, projectVars, applyVars, removeVars>>

SpecReplace == InitReplace /\ [][NextReplace]_vars

HasEntry(from, to) == \E e \in 1..Len(mapping) : mapping[e] = [key |-> from, val |-> to]

\* C8: in the list of generateGlobalStringReplaceInstructions every entry of
\* the table whose from has an "@" comes before every entry of the table
\* whose from has none (the fallback entry is the last); and once the list
\* has been applied for a table with (abc@v1 -> xyz@v2) and (abc -> xyz),
\* every string of the array that contained abc@v1 contains xyz@v2 and does
\* not contain xyz@v1.
C8_VariantEntriesFirst ==
    /\ rpc \in {"generated", "applied"} =>
          /\ Len(stringInstructions) = Len(mapping) + 1
          /\ \A i, j \in 1..Len(mapping) :
                (IncludesChar(stringInstructions[i].from, At)
                 /\ ~IncludesChar(stringInstructions[j].from, At)) => i < j
    /\ (rpc = "applied" /\ HasEntry(VariantFrom, VariantTo) /\ HasEntry(PlainFrom, PlainTo)) =>
          \A i \in LiveSlots(strInput) : \A f \in DOMAIN strInput[i] :
              (strInput[i][f].tag = "str" /\ Includes(strInput[i][f].s, VariantFrom)) =>
                  /\ Includes(strData[i][f].s, VariantTo)
                  /\ ~Includes(strData[i][f].s, Mixed)

\* The table lists (abc -> xyz) before (abc@v1 -> xyz@v2), and the string
\* assets/abc@v1/tex.png of the array has become a string with xyz@v2.
C8_Witness ==
    /\ rpc = "applied"
    /\ \E i, j \in 1..Len(mapping) :
          /\ i < j
          /\ mapping[i] = [key |-> PlainFrom, val |-> PlainTo]
          /\ mapping[j] = [key |-> VariantFrom, val |-> VariantTo]
    /\ strInput[0]["url"] = StrV(AssetPath)
    /\ Includes(strData[0]["url"].s, VariantTo)
    /\ strData[0]["url"] # strInput[0]["url"]

(***************************************************************************)
(* migrateDirectory run (src/unnamed/part_000, 1036-1099): the loop over   *)
(* the prefab files of the source directory                                *)
(***************************************************************************)
\* One source file of the directory: whether its target file exists, whether
\* both files can be read and parsed as JSON, whether the output can be
\* written, and the two parsed documents.
File(v2Exists, readable, writable, v3, v2) ==
    [v2Exists |-> v2Exists, readable |-> readable, writable |-> writable, v3 |-> v3, v2 |-> v2]

FileKinds ==
    { File(TRUE, TRUE, TRUE, GoodSource, GoodTarget),
      File(FALSE, TRUE, TRUE, GoodSource, GoodTarget),
      File(TRUE, FALSE, TRUE, GoodSource, GoodTarget),
      File(TRUE, TRUE, FALSE, GoodSource, GoodTarget),
      File(TRUE, TRUE, TRUE, NotArray, GoodTarget),
      File(TRUE, TRUE, TRUE, GoodSource, NoRootDoc) }

\* The most prefab files in the source directory.
MaxFiles == 3

\* migratePrefab throws: buildPathMap(null) after parsePrefab returned null
\* (lines 996-1000).
migratePrefabThrows(v3, v2) == parsePrefab(v3) = NoTree \/ parsePrefab(v2) = NoTree

\* migrateFile throws: a file cannot be read or parsed, migratePrefab throws,
\* or the output cannot be written.
migrateFileThrows(file) ==
    \/ ~file.readable
    \/ migratePrefabThrows(file.v3, file.v2)
    \/ ~file.writable

\* A variant of the loop in which a failure of one file ends the loop.
leaveLoop(index, count) == count + 1

\* The catch block of the loop has run for the file at index: the loop goes
\* on with the next file.
catchAndContinue(index, count) == index + 1

InitDirectory ==
    /\ dpc = "loop"
    /\ \E n \in 0..MaxFiles : v3Files \in [1..n -> FileKinds]
    /\ fileIndex = 1 /\ successCount = 0 /\ failCount = 0
    /\ processed = {} /\ written = {}
    /\ IdleCodec /\ IdleCompact /\ IdleMigrate /\ IdleReplace /\ IdleProject /\ IdleApply /\ IdleRemove

\* One iteration of the loop of migrateDirectory (lines 1070-1092).
ProcessFile ==
    /\ dpc = "loop" /\ fileIndex <= Len(v3Files)
    /\ processed' = processed \cup {fileIndex}
    /\ LET file == v3Files[fileIndex]
       IN  IF ~file.v2Exists
           THEN /\ failCount' = failCount + 1
                /\ fileIndex' = fileIndex + 1
                /\ UNCHANGED <<successCount, written>>
           ELSE IF migrateFileThrows(file)
           THEN /\ failCount' = failCount + 1
                /\ fileIndex' = catchAndContinue(fileIndex, Len(v3Files))
                /\ UNCHANGED <<successCount, written>>
           ELSE /\ successCount' = successCount + 1
                /\ written' = written \cup {fileIndex}
                /\ fileIndex' = fileIndex + 1
                /\ UNCHANGED failCount
    /\ UNCHANGED <<dpc, v3Files>>

\* The loop has ended and the statistics are printed (lines 1094-1098).
Report ==
    /\ dpc = "loop" /\ fileIndex > Len(v3Files)
    /\ dpc' = "done"
    /\ UNCHANGED <<v3Files, fileIndex, successCount, failCount, processed, written>>

NextDirectory ==
    /\ ProcessFile \/ Report
    /\ UNCHANGED <<codecVars, compactVars, migrateVars, replaceVars, projectVars, applyVars, removeVars>>

SpecDirectory == InitDirectory /\ [][NextDirectory]_vars

\* C11: a failure while one file is processed does not end the loop of
\* migrateDirectory: when the loop has ended every file has been processed,
\* and successCount + failCount is the number of files found.
C11_EveryFileCounted ==
    /\ dpc \in {"loop", "done"} => successCount + failCount = Cardinality(processed)
    /\ dpc = "done" =>
          /\ processed = 1..Len(v3Files)
          /\ successCount + failCount = Len(v3Files)
          /\ written = {i \in 1..Len(v3Files) :
                           v3Files[i].v2Exists /\ ~migrateFileThrows(v3Files[i])}

\* The loop has ended; a file failed in migrateFile and a later file was
\* migrated and counted as a success.
C11_Witness ==
    /\ dpc = "done"
    /\ \E i, j \in 1..Len(v3Files) :
          /\ i < j
          /\ v3Files[i].v2Exists /\ migrateFileThrows(v3Files[i])
          /\ j \in written
    /\ successCount >= 1 /\ failCount >= 1

(***************************************************************************)
(* parsePrefab run (src/parserv3.js, 18-135, 204-213): one flat array is   *)
(* projected twice and the path map of its tree is built                   *)
(***************************************************************************)
\* A node record; parent is the value of its _parent field.
TreeNode(name, parent, kids, comps) ==
    Rec(<< <<"__type__", StrV(ccNode)>>, <<"_name", StrV(name)>>, <<"_parent", parent>>,
           <<"_children", Refs(kids)>>, <<"_components", Refs(comps)>> >>)

\* The arrays of the run: the nodes Root (slot 0), a node named name (slot 1)
\* and Btn (slot 2), an empty slot, and the Label of slot 1 and the Sprite of
\* slot 2.  The parent references, the child lists and the name of slot 1 vary:
\* a parent may be null, a node, an empty slot (3) or past the end (7); the children of
\* slot 1 may close a cycle.
TreeArray(rootParent, parent, name, rootKids, kids) ==
    Arr(<< TreeNode(RootName, rootParent, rootKids, <<>>),
           TreeNode(name, parent, kids, <<4>>),
           TreeNode(Btn, Ref(0), <<>>, <<5>>),
           Tomb,
           Rec(<< <<"__type__", StrV(cc \o Label)>>, <<"node", Ref(1)>>,
                  <<"_string", StrV(NewText)>>, <<"_color", Num(9)>> >>),
           Rec(<< <<"__type__", StrV(cc \o Sprite)>>, <<"node", Ref(2)>>,
                  <<"_color", Num(7)>>, <<"label", Ref(4)>> >>) >>)

TreeArrays ==
    { TreeArray(rootParent, parent, name, rootKids, kids) :
        rootParent \in {Null, Ref(1), Ref(3)}, parent \in {Ref(0), Null, Ref(7)},
        name \in {Btn, Extra}, rootKids \in {<<1, 2>>, <<2, 1>>, <<1>>},
        kids \in {<<>>, <<2>>, <<0>>, <<1>>} }

InitProject ==
    /\ tpc = "new"
    /\ document \in TreeArrays \cup {NotArray}
    /\ rootNode = -1 /\ firstTree = <<>> /\ secondTree = <<>> /\ treePaths = <<>>
    /\ IdleCodec /\ IdleCompact /\ IdleMigrate /\ IdleReplace /\ IdleDirectory /\ IdleApply /\ IdleRemove

\* parsePrefab(document): rootNode is the local of parse() (line 26).
Parse ==
    /\ tpc = "new"
    /\ rootNode' = IF IsArray(document) THEN findRootNode(document) ELSE -1
    /\ firstTree' = parsePrefab(document)
    /\ tpc' = "parsed"
    /\ UNCHANGED <<document, secondTree, treePaths>>

\* A second call of parsePrefab on the same array: a new parser object.
ParseAgain ==
    /\ tpc = "parsed"
    /\ secondTree' = parsePrefab(document)
    /\ tpc' = "again"
    /\ UNCHANGED <<document, rootNode, firstTree, treePaths>>

\* buildPathMap(tree); Object.entries(null) throws.
BuildPaths ==
    /\ tpc = "again"
    /\ IF firstTree = NoTree
       THEN tpc' = "threw" /\ UNCHANGED treePaths
       ELSE tpc' = "mapped" /\ treePaths' = buildPathMap(firstTree)
    /\ UNCHANGED <<document, rootNode, firstTree, secondTree>>

NextProject ==
    /\ Parse \/ ParseAgain \/ BuildPaths
    /\ UNCHANGED <<codecVars, compactVars, migrateVars, replaceVars, directoryVars, applyVars, removeVars>>

SpecProject == InitProject /\ [][NextProject]_vars

RECURSIVE NodeInfos(_)
\* Every node info of a node info and its children.
NodeInfos(info) ==
    {info} \cup UNION {NodeInfos(info.children[i].val) : i \in 1..Len(info.children)}

\* The node info stands for a node record of the array at its recorded slot,
\* and every component of it for a component record of that node at its
\* recorded slot, of the kind it is keyed by, with that record's field values.
SlotsPreserved(info, data) ==
    /\ Live(data, info.__nodeId__) /\ TypeOf(data[info.__nodeId__]) = ccNode
    /\ \A c \in 1..Len(info.components) :
        LET comp == info.components[c].val
            compId == comp["__compId__"].n
        IN  /\ \E k \in 1..Len(RefList(data[info.__nodeId__], "_components")) :
                    RefList(data[info.__nodeId__], "_components")[k] = compId
            /\ Live(data, compId)
            /\ TypeOf(data[compId]) = cc \o info.components[c].key
            /\ \A f \in DOMAIN data[compId] \ {"__type__"} :
                    data[compId][f].tag # "ref" => comp[f] = data[compId][f]

ChildNodes(data, slot) ==
    SelectSeq(RefList(data[slot], "_children"),
              LAMBDA c : Live(data, c) /\ TypeOf(data[c]) = ccNode)

\* C16: when two children of one parent have the same name, the node info the
\* path map holds under their path is the one of the first of them in the
\* parent's children order.
C16_FirstDuplicateWins ==
    tpc = "mapped" =>
        \A p \in 1..Len(treePaths) :
            LET kids == ChildNodes(document, treePaths[p].val.__nodeId__)
                name(k) == NameOr(document[kids[k]], NodePrefix \o Decimal(kids[k]))
            IN  \A i \in 1..Len(kids) : \A j \in (i + 1)..Len(kids) :
                    (name(i) = name(j) /\ \A h \in 1..(i - 1) : name(h) # name(i)) =>
                        Get(treePaths, treePaths[p].key \o Slash \o name(i)).__nodeId__
                            = kids[i]

\* C16 (amended): the node info the path map holds under the path of a child
\* is the one of the last child of that name in the parent's children order.
C16_LastDuplicateWins ==
    tpc = "mapped" =>
        \A p \in 1..Len(treePaths) :
            LET kids == ChildNodes(document, treePaths[p].val.__nodeId__)
                name(k) == NameOr(document[kids[k]], NodePrefix \o Decimal(kids[k]))
            IN  \A i \in 1..Len(kids) :
                    (\A h \in (i + 1)..Len(kids) : name(h) # name(i)) =>
                        Get(treePaths, treePaths[p].key \o Slash \o name(i)).__nodeId__
                            = kids[i]

\* The root has two children of one name and the path map holds the second.
C16_Witness ==
    /\ tpc = "mapped"
    /\ \E p \in 1..Len(treePaths) :
        LET kids == ChildNodes(document, treePaths[p].val.__nodeId__)
        IN  /\ Len(kids) = 2 /\ kids[1] # kids[2]
            /\ NameOr(document[kids[1]], <<>>) = NameOr(document[kids[2]], <<>>)
            /\ Get(treePaths, treePaths[p].key \o Slash \o NameOr(document[kids[2]], <<>>))
                   .__nodeId__ = kids[2]

\* The node records of the array whose parent reference is absent or does not
\* resolve to a record of the array.
Parentless(data) ==
    {i \in LiveSlots(data) :
        /\ TypeOf(data[i]) = ccNode
        /\ \/ ~Has(data[i], "_parent")
           \/ data[i]["_parent"].tag # "ref"
           \/ ~Live(data, data[i]["_parent"].n)}

\* C17: the root parse() chooses is the lowest-slot node record whose parent
\* reference is absent or does not resolve to a record of the array, and no
\* root is found only when no node record is such.
C17_RootIsLowestParentless ==
    (tpc \in {"parsed", "again", "mapped", "threw"} /\ IsArray(document)) =>
        IF Parentless(document) = {} THEN rootNode = -1
        ELSE /\ rootNode \in Parentless(document)
             /\ \A i \in Parentless(document) : rootNode <= i

\* C18: for every array in which parse() finds a root, cyclic child
\* references or not, the tree construction terminates and parsePrefab
\* returns a tree.
C18_ProjectionReturnsTree ==
    (tpc \in {"parsed", "again", "mapped", "threw"} /\ rootNode # -1) => firstTree # NoTree

(***************************************************************************)
(* applyMigrationInstructions run (src/unnamed/part_000, 711-763): a list  *)
(* of instructions, some for slots without a record, is applied to an array*)
(***************************************************************************)
\* The most instructions in the list.
MaxInstructions == 2

\* The instructions of the run address the slots 0 (Root, or empty when the
\* array starts with an empty slot), 1 and 2 (records) and 12 (past the end).
InstructionKinds ==
    { [NoIns EXCEPT !.type = "TRANSFORM_TO_NODE", !.targetNodeId = slot, !.field = "_opacity",
                    !.value = Num(200), !.source = <<UIOpacity, "_opacity">>] : slot \in {0, 12} }
    \cup
    { [NoIns EXCEPT !.type = "TRANSFORM_TO_COMPONENT", !.targetCompId = slot,
                    !.field = "_N$string", !.value = StrV(NewText),
                    !.source = <<Label, "_string">>] : slot \in {0, 2} }
    \cup
    { [NoIns EXCEPT !.type = "MIGRATE_COMPONENT", !.targetCompId = slot,
                    !.componentType = Sprite,
                    !.fields = << [field |-> "_color", value |-> Num(7)],
                                  [field |-> "url", value |-> StrV(NewFrame)] >>] :
        slot \in {1, 12} }

InstructionLists ==
    UNION {[1..n -> InstructionKinds] : n \in 0..MaxInstructions}

InitApply ==
    /\ apc = "new"
    /\ applyInput \in {TargetGraph(lead, UIOpacity, Sprite, FALSE, BorderGraphicKey) :
                          lead \in 0..MaxTomb}
    /\ applyList \in InstructionLists
    /\ applyData = applyInput
    /\ appliedCount = 0
    /\ IdleCodec /\ IdleCompact /\ IdleMigrate /\ IdleReplace /\ IdleDirectory /\ IdleProject
    /\ IdleRemove

\* applyMigrationInstructions(v2PrefabData, instructions)
Apply ==
    /\ apc = "new"
    /\ applyData' = applyMigrationInstructions(applyData, applyList)
    /\ appliedCount' = AppliedCount(applyData, applyList, Len(applyList))
    /\ apc' = "done"
    /\ UNCHANGED <<applyInput, applyList>>

NextApply ==
    /\ Apply
    /\ UNCHANGED <<codecVars, compactVars, migrateVars, replaceVars, directoryVars, projectVars,
                   removeVars>>

SpecApply == InitApply /\ [][NextApply]_vars

\* The slot an instruction addresses.
Addressed(instruction) ==
    IF instruction.type = "TRANSFORM_TO_NODE" THEN instruction.targetNodeId
    ELSE instruction.targetCompId

\* The fields an instruction assigns, with their values.
Assigned(instruction) ==
    IF instruction.type = "MIGRATE_COMPONENT"
    THEN {<<instruction.fields[j].field, instruction.fields[j].value>> :
            j \in 1..Len(instruction.fields)}
    ELSE {<<instruction.field, instruction.value>>}

\* The instructions of the list whose addressed slot holds no record.
MissingSlot == {k \in 1..Len(applyList) : ~Live(applyInput, Addressed(applyList[k]))}

\* The last instruction of the list that assigns the field f of the record in
\* slot, 0 when none does.
LastAssigning(slot, f) ==
    LET hits == {k \in 1..Len(applyList) \ MissingSlot :
                    /\ Addressed(applyList[k]) = slot
                    /\ \E a \in Assigned(applyList[k]) : a[1] = f}
    IN  IF hits = {} THEN 0 ELSE CHOOSE k \in hits : \A l \in hits : l <= k

\* C15: applyMigrationInstructions raises no error, counts exactly the
\* instructions whose addressed slot holds a record, creates no slot, leaves
\* every record unchanged but for the fields those instructions assign, and
\* gives each such field the value of the last of them: an instruction for a
\* slot without a record changes nothing and the others are still applied.
C15_MissingSlotSkipped ==
    apc = "done" =>
        /\ appliedCount = Len(applyList) - Cardinality(MissingSlot)
        /\ DOMAIN applyData = DOMAIN applyInput
        /\ \A slot \in DOMAIN applyInput :
            IF ~Live(applyInput, slot) THEN applyData[slot] = applyInput[slot]
            ELSE \A f \in DOMAIN applyData[slot] \cup DOMAIN applyInput[slot] :
                    IF LastAssigning(slot, f) = 0
                    THEN /\ Has(applyInput[slot], f) /\ Has(applyData[slot], f)
                         /\ applyData[slot][f] = applyInput[slot][f]
                    ELSE /\ Has(applyData[slot], f)
                         /\ <<f, applyData[slot][f]>> \in
                                Assigned(applyList[LastAssigning(slot, f)])

\* A list of two instructions, the first for a slot without a record: it is
\* not counted and the second is applied.
C15_Witness ==
    /\ apc = "done" /\ Len(applyList) = 2 /\ MissingSlot = {1}
    /\ appliedCount = 1
    /\ applyData # applyInput

(***************************************************************************)
(* applyRemovalInstructions run (src/unnamed/part_000, 554-590, 768-812):  *)
(* the removal instructions are planned on an array from the tree of that  *)
(* same array, and applied to it                                           *)
(***************************************************************************)
\* A component record of the run.
Component(kind, id, node) ==
    Rec(<< <<"__type__", StrV(cc \o kind)>>, <<"_id", Num(id)>>, <<"node", Ref(node)>> >>)

\* The arrays of the run: Root (slot 0) with the components of slots 1 to 3
\* (UIOpacity, UITransform, Sprite), Btn (slot 4) with those of slots 6 to 8
\* (UITransform, Button, Sprite) and Extra (slot 5).  The component lists and
\* the child lists vary; with Btn among the children of Extra too, the tree
\* holds Btn under two paths.
RemovalArray(rootComps, btnComps, rootKids, extraKids) ==
    Arr(<< Put(TreeNode(RootName, Null, rootKids, rootComps), "_id", Num(100)),
           Component(UIOpacity, 101, 0),
           Component(UITransform, 102, 0),
           Component(Sprite, 103, 0),
           Put(TreeNode(Btn, Ref(0), <<>>, btnComps), "_id", Num(104)),
           Put(TreeNode(Extra, Ref(0), extraKids, <<>>), "_id", Num(105)),
           Component(UITransform, 106, 4),
           Component(Button, 107, 4),
           Component(Sprite, 108, 4) >>)

RemovalArrays ==
    { RemovalArray(rootComps, btnComps, rootKids, extraKids) :
        rootComps \in {<<1, 2, 3>>, <<3, 2, 1>>, <<2, 3, 1>>, <<3>>},
        btnComps \in {<<6, 7, 8>>, <<7, 6, 8>>, <<7, 8, 6>>, <<7, 8>>},
        rootKids \in {<<4, 5>>, <<5, 4>>, <<5>>},
        extraKids \in {<<>>, <<4>>} }

InitRemove ==
    /\ rmpc = "new"
    /\ rmInput \in RemovalArrays
    /\ rmPathMap = <<>> /\ rmInstructions = <<>>
    /\ rmData = rmInput
    /\ IdleCodec /\ IdleCompact /\ IdleMigrate /\ IdleReplace /\ IdleDirectory /\ IdleProject
    /\ IdleApply

\* The tree and the path map of the array as it is, and
\* generateRemovalInstructions(v2PathMap, v2PrefabData) on them.
PlanOnCurrent ==
    /\ rmpc = "new"
    /\ rmPathMap' = buildPathMap(parsePrefab(rmData))
    /\ rmInstructions' = generateRemovalInstructions(rmPathMap', rmData)
    /\ rmpc' = "planned"
    /\ UNCHANGED <<rmInput, rmData>>

\* applyRemovalInstructions(v2PrefabData, removalInstructions)
ApplyPlanned ==
    /\ rmpc = "planned"
    /\ rmData' = applyRemovalInstructions(rmData, rmInstructions)
    /\ rmpc' = "applied"
    /\ UNCHANGED <<rmInput, rmPathMap, rmInstructions>>

NextRemove ==
    /\ PlanOnCurrent \/ ApplyPlanned
    /\ UNCHANGED <<codecVars, compactVars, migrateVars, replaceVars, directoryVars, projectVars,
                   applyVars>>

SpecRemove == InitRemove /\ [][NextRemove]_vars

\* The _id of the record in the slot, -1 when the slot holds none.
IdAt(data, slot) ==
    IF Live(data, slot) /\ Has(data[slot], "_id") THEN data[slot]["_id"].n ELSE -1

\* The _id of every entry of the component-reference list of a node record.
ComponentIds(data, node) ==
    LET list == RefList(node, "_components")
    IN  [k \in 1..Len(list) |-> IdAt(data, list[k])]

\* The component slots the instructions name for the node in slot.
PlannedFor(slot) ==
    {rmInstructions[k].compId : k \in {l \in 1..Len(rmInstructions) :
                                          rmInstructions[l].nodeId = slot}}

\* C21: for the instructions planned on the array as it is, each instruction
\* finds, when it is applied in the order of applyRemovalInstructions, its
\* component slot at its recorded position of the node's component-reference
\* list; and after the application the list of every node is its list of
\* before without the planned components, the others in their order.
C21_RemovesExactlyPlanned ==
    /\ rmpc \in {"planned", "applied"} =>
          LET sortedInstructions == SortByCompIndexDesc(rmInstructions)
          IN  \A k \in 1..Len(sortedInstructions) :
                LET ins == sortedInstructions[k]
                    list == RefList(RemoveFirst(rmInput, sortedInstructions, k - 1)[ins.nodeId],
                                    "_components")
                IN  ins.compIndex < Len(list) /\ list[ins.compIndex + 1] = ins.compId
    /\ rmpc = "applied" =>
          \A slot \in LiveSlots(rmInput) :
              TypeOf(rmInput[slot]) = ccNode =>
                  \E new \in LiveSlots(rmData) :
                      /\ rmData[new]["_id"] = rmInput[slot]["_id"]
                      /\ ComponentIds(rmData, rmData[new]) =
                            ComponentIds(rmInput,
                                [rmInput[slot] EXCEPT !["_components"].list =
                                    SelectSeq(@, LAMBDA c : c \notin PlannedFor(slot))])

(***************************************************************************)
(* Compaction run: one flat array with tombstones is compacted.            *)
(***************************************************************************)
\* The largest flat array of the compaction run.
MaxSlots == 3

\* The record of slot i in an array of len slots: it refers to slot target;
\* the record of slot 0 also lists every other slot.  With shared, the fields
\* ref and ref2 hold one and the same reference object.
PlainRecord(i, len, target, shared) ==
    LET base == [f \in {"_id", "ref"} |->
                    IF f = "_id" THEN Num(i)
                    ELSE IF shared THEN Val("ref", target, <<>>, <<>>, <<"o", i>>)
                    ELSE Ref(target)]
        two == IF shared THEN Put(base, "ref2", base["ref"]) ELSE base
    IN  IF i = 0 THEN Put(two, "_children", Refs([k \in 1..(len - 1) |-> k])) ELSE two

\* target[i] = -1 makes slot i a tombstone.
PlainArray(len, target, shared) ==
    [i \in 0..(len - 1) |->
        IF target[i] = -1 THEN Tomb ELSE PlainRecord(i, len, target[i], shared)]

CompactInputs ==
    UNION {{PlainArray(len, target, shared) :
                target \in [0..(len - 1) -> -1..(len - 1)], shared \in BOOLEAN} :
           len \in 1..MaxSlots}

InitCompact ==
    /\ kpc = "start"
    /\ prefabData \in CompactInputs
    /\ before = <<>>
    /\ IdleCodec /\ IdleMigrate /\ IdleReplace /\ IdleDirectory /\ IdleProject /\ IdleApply /\ IdleRemove

Compact ==
    /\ kpc = "start"
    /\ before' = prefabData
    /\ prefabData' = compactAndReindexPrefab(prefabData)
    /\ kpc' = "done"

NextCompact == Compact /\ UNCHANGED <<codecVars, migrateVars, replaceVars, directoryVars, projectVars, applyVars, removeVars>>

SpecCompact == InitCompact /\ [][NextCompact]_vars

\* The slots of the records of the array before compaction, in order.
LiveBefore == Sorted(LiveSlots(before))

\* The compacted array has one record per live record of the input, in the
\* same relative order.
SameRecordsInOrder ==
    /\ DOMAIN prefabData = 0..(Len(LiveBefore) - 1)
    /\ \A i \in DOMAIN prefabData :
          /\ DOMAIN prefabData[i] = DOMAIN before[LiveBefore[i + 1]]
          /\ prefabData[i]["_id"] = before[LiveBefore[i + 1]]["_id"]

\* C1 as stated: after compaction of an array with N records and K tombstones
\* the result has exactly N records, in the same relative order, and every
\* reference of every record holds an index in [0, N).
C1_AllRefsInRange ==
    kpc = "done" =>
        /\ SameRecordsInOrder
        /\ \A r \in RefsOf(prefabData) : r \in 0..(Len(LiveBefore) - 1)

\* C1 as amended: the result has exactly N records, in the same relative
\* order, and every reference whose target was a record (not a tombstone)
\* before compaction holds an index in [0, N).
C1_LiveRefsInRange ==
    kpc = "done" =>
        /\ SameRecordsInOrder
        /\ \A i \in DOMAIN prefabData : \A f \in DOMAIN prefabData[i] :
              LET old == before[LiveBefore[i + 1]][f]
                  new == prefabData[i][f]
              IN  /\ old.tag = "ref" /\ Live(before, old.n) => new.n \in 0..(Len(LiveBefore) - 1)
                  /\ old.tag = "refs" =>
                        \A k \in 1..Len(old.list) :
                            Live(before, old.list[k]) => new.list[k] \in 0..(Len(LiveBefore) - 1)

\* An array with a tombstone before a record has been compacted, and a
\* reference to that record now holds its new, smaller index.
C1_Witness ==
    /\ kpc = "done"
    /\ ArrLen(before) > ArrLen(prefabData)
    /\ ArrLen(prefabData) >= 2
    /\ \E i \in DOMAIN prefabData :
          LET old == before[LiveBefore[i + 1]]["ref"]
          IN  /\ Live(before, old.n)
              /\ prefabData[i]["ref"].n < old.n

\* The slot new of the compacted array holds the record that slot old held
\* before compaction.
SameReferent(old, new) ==
    /\ new \in DOMAIN prefabData
    /\ prefabData[new]["_id"] = before[old]["_id"]

\* C20: after compaction every reference whose target was a record before
\* designates that same record, also when one reference object is held by
\* several fields.
C20_ReferentsPreserved ==
    kpc = "done" =>
        \A i \in DOMAIN prefabData : \A f \in DOMAIN prefabData[i] :
            LET old == before[LiveBefore[i + 1]][f]
                new == prefabData[i][f]
            IN  /\ old.tag = "ref" /\ Live(before, old.n) => SameReferent(old.n, new.n)
                /\ old.tag = "refs" =>
                      \A k \in 1..Len(old.list) :
                          Live(before, old.list[k]) => SameReferent(old.list[k], new.list[k])

(***************************************************************************)
(* Codec run: one identifier is shortened and lengthened again.            *)
(***************************************************************************)
\* The number of digit positions of an identifier that the inputs vary.
NumVarPos == 3

\* The positions varied, in this order: a reserved digit, the three digits of
\* the first packed triple, the last reserved digit, the last digit.
VarPos == <<1, 6, 7, 8, 5, 36, 10, 20>>

\* The characters put at a varied position, besides those base has there.
VarChars == {Ord("0"), Ord("f"), Ord("A"), Ord("F")}

\* base with the characters at the first NumVarPos positions of VarPos
\* replaced by sub[1], sub[2], ...
Vary(base, sub) ==
    [i \in 1..Len(base) |->
        IF \E k \in 1..Len(sub) : VarPos[k] = i
        THEN sub[CHOOSE k \in 1..Len(sub) : VarPos[k] = i]
        ELSE base[i]]

UuidInputs ==
    UNION {{Vary(base, sub) :
               sub \in [1..NumVarPos -> VarChars \cup {base[VarPos[k]] : k \in 1..NumVarPos}]} :
           base \in {ExampleId, CountDownId}}

IsLowerHex(c) == (c >= 48 /\ c <= 57) \/ (c >= 97 /\ c <= 102)

InitCodec ==
    /\ cpc = "start"
    /\ uuid \in UuidInputs
    /\ min = FALSE
    /\ encoded = <<>>
    /\ decoded = <<>>
    /\ IdleCompact /\ IdleMigrate /\ IdleReplace /\ IdleDirectory /\ IdleProject /\ IdleApply /\ IdleRemove

Encode ==
    /\ cpc = "start"
    /\ \E m \in BOOLEAN :
          /\ min' = m
          /\ encoded' = encodeUuid(uuid, m)
    /\ cpc' = "encoded"
    /\ UNCHANGED <<uuid, decoded>>

Decode ==
    /\ cpc = "encoded"
    /\ decoded' = decodeUuid(encoded)
    /\ cpc' = "decoded"
    /\ UNCHANGED <<uuid, min, encoded>>

NextCodec ==
    (Encode \/ Decode) /\ UNCHANGED <<compactVars, migrateVars, replaceVars, directoryVars, projectVars, applyVars, removeVars>>

SpecCodec == InitCodec /\ [][NextCodec]_vars

\* C6 as stated: for every valid long identifier id, decodeUuid(encodeUuid(id))
\* is id exactly, encodeUuid(id) has 23 characters and its first 5 characters
\* are the first 5 hexadecimal digits of id.
C6_RoundTripExact ==
    (cpc = "decoded" /\ ~min) =>
        /\ decoded = uuid
        /\ Len(encoded) = 23
        /\ SubSeq(encoded, 1, 5) = SubSeq(uuid, 1, 5)

\* C6 as amended: the round trip yields id in lower case (id itself when id has
\* no upper-case digit), encodeUuid(id) has 23 characters and its first 5
\* characters are the first 5 hexadecimal digits of id in lower case.
C6_RoundTripLower ==
    (cpc = "decoded" /\ ~min) =>
        /\ decoded = toLowerCase(uuid)
        /\ (\A i \in 1..Len(uuid) : uuid[i] = Hyphen \/ IsLowerHex(uuid[i])) => decoded = uuid
        /\ Len(encoded) = 23
        /\ SubSeq(encoded, 1, 5) = toLowerCase(SubSeq(uuid, 1, 5))

\* The example identifier has made the round trip.
C6_Witness ==
    /\ cpc = "decoded" /\ ~min
    /\ uuid = ExampleId
    /\ decoded = ExampleId
    /\ SubSeq(encoded, 1, 5) = Str(<<"e", "9", "e", "c", "6">>)

====
